SPECIFICATION Spec
CONSTANTS
  Publishers = {"p1"}
  Packages = {"app"}
  Releases = {"app1", "app2"}
  PackageOf <- MCPackageOf
  PublisherOf <- MCPublisherOf
  DependsOn <- MCDependsOn
  Nonces = {"n1", "n2", "n3"}
  Scopes = {"any", "work"}
  AnyScope = "any"
  NoRelease = NoRelease
  NoPlan = NoPlan
  TornBundle = TornBundle
  TornRecord = TornRecord
  MaxGrants = 2
  MaxPlans = 1
  MaxFaults = 1
CHECK_DEADLOCK FALSE
INVARIANTS
  EcosystemIsSound
PROPERTIES
  NothingIsUndone
  FollowsLifecycle
