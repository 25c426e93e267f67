INIT Init
NEXT Next
CONSTANTS
NSlots = 7
BnMaxBytes = 7
BnAlign = 1
Numbers = {n1}
Points = {p}
BnSizes = {1, 2}
Header = 3
MaxPacket = 6
Sizes = {0, 2, 3, 5, 6}
Declared = {0, 2, 4}
UsbTries = 2
MaxEvents = 3
HashBlock = 4
HashLength = 2
HashMaxBlocks = 3
HashMaxData = 14
MdLen = 2
HmacBlock = 3
HmacKeys = {0, 2, 3, 4}
HmacMax = 3
LamportChunks = 2
MaxEp0 = 9
Lengths = {0, 9, 64}
NameLength = 8
MaxEmpty = 3
ByteBits = 3
Align = 2
U32Bytes = 2
MaxBytes = 4
LimbBits = 4
KeyBits = 10
Order = 617
EdChildBits = 2
HardBit = 8
IndexBase = 4
BIP32_WILDCARD_VALUE = 7
PathRequests <- MCPathRequests
DerNumbers <- MCDerNumbers
DerRooms = {8, 72}
DerInputs <- MCDerInputs
Hmac512 <- ToyHmac512
Blake2b512 <- ToyBlake2b512
Sha256 <- ToySha256
CODE_HASH <- ToyCodeHash
Apps = {main, lib}
MainApp = main
NvmApps = {main, lib}
MAX_LIBCALL = 2
NvmSize = 3
NvmValues = {0, 1}
Image = image
KeyNames = {a}
TestRoot = test
ProdRoot = prod
NoName = noname
pki_prod = FALSE
FieldValues <- CertificateValues
INVARIANTS AppRestored PkiTrusted BnAccounting BnOwned TurnAgreed EventsInOrder HashOfWhole MacOfKey KeccakStandard DataStageWhole ClassFollowsState AnsweredOnce MpiExact GroupLaw CompressionLossless DerRoundTrip SignatureVerifies CurveTables ExpansionStandard PublicDerivation PathAuthorised TagOfEachIndex RleRoundTrip
