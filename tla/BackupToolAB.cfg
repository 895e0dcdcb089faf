SPECIFICATION Spec
CONSTANTS
    old = old
    new = new
    other = other
    hosts = hosts
    app = app
    lib = lib
    overlay = overlay
    tweak = tweak
    odexed = odexed
    launcher = launcher
    vendor = vendor
    product = product
    Images = {old, new, other}
    Separate <- MCSeparate
    VersionIn <- MCVersionIn
    Scripts = {1, 2, 3, 4}
    StockScripts <- MCStockScripts
    Version <- MCVersion
    Files = {hosts, app, lib, overlay, tweak, odexed, launcher}
    Lists <- MCLists
    Obsolete <- MCObsolete
    Odexed = {odexed}
    Stock <- MCStock
    Partition <- MCPartition
    Extra = {vendor, product}
    MaxStops = 2
INVARIANTS
    TypeOK
    AddonsCarriedOver
    RunningStaysMounted
    NothingIsLeft
\* The script is through.
CHECK_DEADLOCK FALSE
