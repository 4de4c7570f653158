SPECIFICATION WireSpec
CONSTANTS
    Base = 6
    High20 = 2
    Tokens <- MCTokens
    Doubles <- MCDoubles
    Nodes <- MCNodes
    LastGroup = 4
    U32 = 16384
    Samples <- MCSamples
    Unknowns <- MCUnknowns
    Order = 37
    TopBit = 128
    PrivateKeys = {13, 24, 300}
    AccountKeys = {24, 300}
    Nonces = {0, 1}
    Secrets = {1, 2}
    Identities <- MCIdentities
    EncryptionTypes = {0, 1, 2}
    NoKey = NoKey
    NoSignature = NoSignature
    NoMac <- MCNoMac
    Messages <- MCMessages
    SignBit <- MCSignBit
    Hash1 <- MCHash1
    Hash2 <- MCHash2
    Hmac <- MCHmac
    EncodeIdentity <- EncodeDeviceIdentity
    DecodeIdentity <- MCDecodeIdentity
    EncodeSigned <- MCEncodeSigned
    DecodeSigned <- MCDecodeSigned
    EncodeContainer <- EncodeHmacContainer
    DecodeContainer <- MCDecodeContainer
    Codes = {1, 2}
    None = None
    MaxRuns = 2
    MaxAttempts = 3
    MaxFinishes = 3
INVARIANTS
    RoundTrip
    TruncationRefused
    ReadAsWritten
    CutNeverInvents
    GenuineIsAccepted
    OnlyGenuineIsAccepted
    ReplyVerifies
    SecretsAgree
    RightCodeLinks
CHECK_DEADLOCK FALSE
