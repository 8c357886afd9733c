CONSTANTS
    OwnId <- MCOwnId
    PeerId <- MCPeerId
    Sig <- MCSig
    PayloadLens <- MCPayloadLens
    Timestamps <- MCTimestamps
SPECIFICATION Spec
INVARIANT StrictDecode
