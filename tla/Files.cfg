CONSTANTS
    Login = {alice, bob}
    Password = {secret, guess}
    TokenTTL = 1
    Interval = 2
    MaxTokens = 2
    MaxTime = 5
    FileName = {f, dir_f, messenger_db}
    Unwritable = {dir_f}
    DatabaseFile = {messenger_db}
    Data <- SomeData
    BlockSize = 2
SPECIFICATION FilesSpec
SYMMETRY UserSymmetry
INVARIANT TypeOK
INVARIANT LoginsUnique
INVARIANT RowsSweptInTime
INVARIANT TokensWhileIntact
INVARIANT DownloadGivesUpload
