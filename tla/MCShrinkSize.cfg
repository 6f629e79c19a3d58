SPECIFICATION SizeSpec
CONSTANTS
    MaxDu = 9999
    Offset = 16
INVARIANTS SizeTypeOK CopyFits
