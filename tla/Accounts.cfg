SPECIFICATION Spec
CONSTANTS
  Ids = {u1, u2}
  Groups = {default, g1}
  Default = default
  Requests = {r1, r2}
  Backends = {"json", "sql"}
  Nobody = Nobody
  NoGroup = NoGroup
INVARIANTS TypeOK AdminRemains GroupsResolve SessionsHaveUsers
PROPERTIES SetupOnlyWhenEmpty RegistrationAsSaved
SYMMETRY Symmetry
CONSTRAINT Telling
