CONSTANTS
    Absent = Absent
    NotANumber = NotANumber
    Unreadable = Unreadable
    Null = Null
    e1 = e1
    e2 = e2
    t1 = t1
    t2 = t2
    jpg = jpg
    png = png
    gif = gif
    short = short
    NoCtx = NoCtx
    NoPath = NoPath
    NoImage = NoImage
    Env = {e1}
    Thread = {t1}
    ThreadOf <- SharedThread
    WindowEnvs = {e1}
    Ctx = {c1, c2}
    Path = {jpg}
    PostfixOf <- Postfix
    Outputs = {}
    Forms = {3}
    Commands <- Skin
    Stops <- FewStops
    Reinit = TRUE
SPECIFICATION Spec
CHECK_DEADLOCK FALSE
PROPERTIES
    SecondInitRefused
