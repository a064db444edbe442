SPECIFICATION Spec
CONSTANTS
    NoSlot = NoSlot
    NoComp = NoComp
    MaxSubs = 1
    MaxConns = 5
    RedirectMax = 4
    Failing = {"m3"}
    Scarce = {0, 100}
    PosixShim = "p"
    Frozen = {}
    Tasks = {"t"}
    SlotIds <- MCSlotIds
    CompIds <- MCCompIds
    BootSlots <- MCBootSlots
    Impl <- MCImpl
    Deps <- MCDeps
    Sections <- MCSections
    MsgDef <- MCMsgDef
    Points <- MCPoints
    HookDef <- MCHookDef
    HandHooks <- MCHandHooks
    Fails <- MCFails
    Memories <- MCMemories
    Swaps <- MCSwaps
    Rewires <- MCRewires
    Clients <- MCClients
    Plans <- MCPlans
    Pauses <- MCPauses
    Fallbacks <- MCFallbacks
INVARIANTS ObserverExact GraphClosed MessagesAccounted SendOrder ActiveIsOpen DependenciesUp HookChains
