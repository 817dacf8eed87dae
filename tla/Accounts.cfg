SPECIFICATION MCSpec
CONSTANTS
  Action = {1, 2}
  k1 = k1
  v1 = v1
  b1 = b1
  b2 = b2
  Skill = {k1}
  NoSkill = none
  Vacancy = {v1}
  NoVacancy = none
  Draft <- Drafts
  Edit <- Edits
  Outcome = {"applied", "offer", "rejected"}
  Event = {u1, u2, u3}
  Subscription = {b1, b2}
  NoSubscription = none
  MaxTime = 2
  Payload <- Payloads
  MaxWrites = 3
  MaxOrgWrites = 2
  User = {u1, u2, u3}
  Cohort = {c1, c2}
  Invite = {i1}
  NoCohort = none
  MaxUses = 2
  Session = {s1, s2}
  Key = {1, 2}
  NoKey = 0
  Object = {c1, c2}
  NoObject = none
SYMMETRY Symmetry
INVARIANTS
  
  BillingIsSoundUnlessRaced
  ObjectsAreSoundUnlessRaced
  OrganizationIsSoundUnlessRaced
PROPERTIES
  AdviceAdvances
CHECK_DEADLOCK FALSE
