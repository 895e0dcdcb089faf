\* The builds of config/version.mk: none sets ro.custom.version.
SPECIFICATION Spec
CONSTANTS
    old = old
    new = new
    other = other
    cookie = cookie
    hosts = hosts
    app = app
    lib = lib
    blob = blob
    odexed = odexed
    launcher = launcher
    vendor = vendor
    Images = {cookie}
    Compatible = {}
    Separate <- MCSeparate
    Scripts = {1, 2, 3}
    StockScripts <- MCStockScripts
    Version <- MCVersion
    Files = {hosts, app, lib, blob, odexed, launcher}
    Lists <- MCLists
    Obsolete <- MCObsolete
    Odexed = {odexed}
    Stock <- MCStock
    Partition <- MCPartition
    Extra = {vendor}
    MaxFlashes = 1
INVARIANTS
    UpgradeBacksUp
