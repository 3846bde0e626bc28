CONSTANTS
    g = g
    a1 = a1
    b1 = b1
    b2 = b2
    t1 = t1
    t2 = t2
    k1 = k1
    o1 = o1
    Blocks <- MCBlocks
    Txs = {t1, t2}
    KeyImages = {k1}
    MsigOutputs = {o1}
    Genesis = g
    Branch <- MCBranch
    BlockTxs <- MCBlockTxs
    Images <- MCImages
    Msigs <- MCMsigs
    Source <- MCSource
    FeeOrder <- MCFeeOrder
    BlobSize <- MCBlobSize
    SizeLimit <- MCSizeLimit
    LiveTime = 0
    AltLiveTime = 1
    ForgetTime = 0
SPECIFICATION FairSpec
INVARIANTS SpentInputsExact RelayedDisjoint TemplateSound
PROPERTIES Expires
