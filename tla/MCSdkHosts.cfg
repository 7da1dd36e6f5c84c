CONSTANTS
    Absent = Absent
    NotANumber = NotANumber
    Unreadable = Unreadable
    Null = Null
    NoCtx = NoCtx
    NoPath = NoPath
    NoImage = NoImage
    NoEnv = NoEnv
    h1 = h1
    h2 = h2
    v1 = v1
    v2 = v2
    a1 = a1
    a2 = a2
    m1 = m1
    app1 = app1
    app2 = app2
    Home = Home
    View = View
    Main = Main
    ui = ui
    loop1 = loop1
    loop2 = loop2
    jpg = jpg
    png = png
    Holder = {Home, View, app1, app2, Main}
    Glue = {app1, app2}
    Env = {h1, h2, v1, v2, a1, a2, m1}
    EnvsOf <- InstancesOf
    Thread = {ui, loop1, loop2}
    ThreadOf <- Threads
    WindowEnvs = {v1, v2, a1, a2}
    Ctx = {c1, c2, c3}
    Path = {jpg, png}
    PostfixOf <- Postfix
    Outputs = {jpg}
    Forms = {3}
    Commands <- BothCommands
    RotateCmd <- Rotate
    NormalCmd <- Normal
    ConsoleCmd <- Normal
    Stops <- SomeStops
    Reinit = FALSE
    Hosts = {"app", "glue", "console"}
SPECIFICATION HostSpec
VIEW LiveView
CHECK_DEADLOCK FALSE
INVARIANTS
    HostTypeOK
    HandlesAreLive
    NoOrphans
    AnsweredClickShows
    
    ConsoleSavesItsInput
    NoLostContextCurrent
