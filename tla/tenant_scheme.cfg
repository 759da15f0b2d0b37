SPECIFICATION Spec
CONSTANTS
    Namespace = {"home", "n1", "n2"}
    Home = "home"
    Public <- MCPublic
    ServiceId <- MCServiceId
    Names <- MCNames
    PlatformZone = "platform"
    Bodies <- MCBodies
    GeneralRoutes <- MCGeneralRoutes
    ParentMaps <- MCParentMaps
INVARIANTS TypeOK OwnHostsKept NoForeignHost NamespacesKept TenantRouteFirst  HostFindsItsSite
PROPERTIES NormalisedOnce ShoppingRenamed
