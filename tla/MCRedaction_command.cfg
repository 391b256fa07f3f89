SPECIFICATION Spec
CONSTANTS
    Environment <- MCEnvironment
    NameLists <- MCNameLists
    KeyWords = {"token", "password"}
    PathWords = {"password"}
    Rank <- MCRank
    Executables <- MCExecutables
    Arguments <- MCArguments
    PathTexts <- MCPathTexts
    MaxArguments = 3
    NonUtf8 = NonUtf8
    None = None
INVARIANTS
    SecretArgumentsAreHidden
    DigestsAreOfShownText
    ConfiguredValuesAreHidden
    HiddenPathsAreNotHashed
