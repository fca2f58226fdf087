SPECIFICATION Spec
CONSTANTS
  a = a
  b = b
  root = root
  registry = registry
  beyond = beyond
  alias = alias
  Manifests = {root, a, b}
  Aliases = {alias}
  consumer = consumer
  moduleA = moduleA
  moduleB = moduleB
  s1 = s1
  s2 = s2
  Sources = {s1, s2}
  ModulesOf <- MCModulesOf
  MaxRun = 2
  MaxChanges = 2
  Written <- MCWritten
  Short = {"a", "b"}
  Long = {"c", "d"}
  Byte = {"x64", "byte", "arm64"}
  Objects <- MCObjects
  machine = "x64"
  MaxMembers = 2
  api = api
  impl = impl
  jvm = jvm
  none = none
  Deps = {api, impl}
  Api = {api}
  Versions = {0, 1, 2}
  Selectors = {0}
  Artifacts = {api, impl, jvm}
  Requests <- MCRequests
  Published <- MCPublished
  MaxWrong = 1
  MaxForeign = 1
INVARIANTS CargoTypeOK ClosureFound ClassifiedIsComplete EvidenceTypeOK AcceptedIsCurrent ManifestTypeOK StrictIsSwift StaysEnforced ArchiveTypeOK VerdictExact FoundAsPacked UploadedIsRight ReceiptsAttest RefusedForCause
PROPERTY AuditEnds
CHECK_DEADLOCK FALSE
