CONSTANTS
    f1 = f1
    a = a
    b = b
    dup = dup
    pic = pic
    MaxJobs = 2
    BatchTools = {"bates", "protect", "flatten"}
    MaxBates = 2
    TypedStart = 2
    MaxReloads = 1
    MaxConversions = 2
    PdfFiles = {f1}
    FilePages <- MCFilePages
    MaxPages = 3
    Cards = {a, b, dup, pic}
    Sheet <- MCSheet
    Copies = {dup}
    Image = "image"
    THUMB_LRU_MAX = 1
    THUMB_CONCURRENCY = 1
    MaxUrls = 2
    MaxLoads = 2
    MaxToolRuns = 3
    MaxPicks = 2
    MaxExports = 2
    MaxSheets = 2
    MaxGens = 4
    MaxShelf = 3
    MaxNumber = 2
    MaxAtOnce = 2
    MaxPlanPages = 3
    Texts <- MCTexts
SPECIFICATION ComponentsSpec
CHECK_DEADLOCK FALSE
CONSTRAINTS NothingExcepted PreviewsUnselected
INVARIANTS
    BatesUnique
    PagesKept
    ThumbsAlive
    CancelIsHonest
    DialogTellsTruth
    MarksFitFile
    TablesOfFile
    DownloadFitsFiles
    
