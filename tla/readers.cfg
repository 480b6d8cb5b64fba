\* Every reader, each on all of its small inputs.
SPECIFICATION FairReadersSpec
CONSTANTS
    Attribute <- MCAttributes
    IterName = {"i", "j", "k"}
    Template <- MCTemplates
    Source <- MCSources
    HiddenAttributes = {"phone"}
    ConfigInput <- MCConfigInput
    GeneratedFrom <- MCGeneratedFrom
    ListTypes <- MCListTypes
    TypeOrder <- MCTypeOrder
    ListSettings <- MCListSettings
    LimitedTypes <- MCLimitedTypes
    Loadable <- MCLoadable
    LimiterConfigs <- MCLimiterConfigs
    Lists <- MCLists
    CsvInput <- MCCsvInput
    Table <- MCTable
    Rendered <- MCRendered
    Unrendered <- MCUnrendered
    Versions = {0, 1, 2}
    Object = {1, 2, 3, 4}
    PageSizes = {1, 2}
    MaxListed = 3
    MaxChanges = 3
    UserLists <- MCUserLists
    GenerateConfigs <- MCGenerateConfigs
    Units <- MCUnits
    EmploymentLists <- MCEmploymentLists
INVARIANTS
    RenderedAsMeant
    VerifiedOnceIsEnough
    SettingsAsWritten
    EveryAttributeIsAsked
    LimitedAsMeant
    RowsAsWritten
    CutFileIsNotRead
    QueryFindsAll
    GeneratedAsMeant
PROPERTIES
    ReadersEnd
CHECK_DEADLOCK FALSE
