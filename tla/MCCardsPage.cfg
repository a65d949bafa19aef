SPECIFICATION FairSpec
CONSTANTS
    relay = relay
    diferir = diferir
    id1 = id1
    id2 = id2
    id3 = id3
    id4 = id4
    click1 = click1
    click2 = click2
    text1 = text1
    text2 = text2
    salt1 = salt1
    salt2 = salt2
    Cards = {relay, diferir}
    SamsaraCards = {diferir}
    SaltedCards = {diferir}
    Sends = {click1, click2}
    Ids = {id1, id2, id3, id4}
    Confusable = {id1}
    Texts = {text1, text2}
    Salts = {salt1, salt2}
    NoCard = NoCard
    NoId = NoId
    NoSalt = NoSalt
INVARIANTS
    TypeOK
    ShownUnderItsCard
    PendingMatchesSends
    PreviewSentUnlessSalted
    OneSocket
PROPERTIES
    IdsSentAgainOnlyInFlight
    ConnectsWhenReachable
