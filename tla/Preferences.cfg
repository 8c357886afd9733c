CONSTANTS
    none = none
    None = none
    Jsons <- MCJsons
    DefaultNicks <- MCDefaultNicks
    PeerIds <- MCPeerIds
    ChannelPrefs <- MCChannelPrefs
    Shortcuts <- MCShortcuts
    Themes = {"light"}
    FontSizes = {30}
    PrivacyInputs <- MCPrivacyInputs
    BatteryInputs <- MCBatteryInputs
    a = a
SPECIFICATION Spec
INVARIANT PreferencesValid
INVARIANT PeerListsDistinct
INVARIANT SecurityLevelMonotone
PROPERTY RejectedUpdateChangesNothing
