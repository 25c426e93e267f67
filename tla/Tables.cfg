INIT CallInit
NEXT CallNext
CONSTANTS
ByteBits = 3
Align = 2
U32Bytes = 2
MaxBytes = 4
LimbBits = 4
MdLen = 2
HmacBlock = 3
HmacKeys = {0, 2, 3, 4}
HmacMax = 3
LamportChunks = 2
KeyBits = 10
Order = 617
EdChildBits = 2
HardBit = 8
Hmac512 <- ToyHmac512
Blake2b512 <- ToyBlake2b512
Sha256 <- ToySha256
CODE_HASH <- ToyCodeHash
INVARIANT SecondConstants
