\* One repo, a playbook of either tenant, two requests at a time, four inputs.
CONSTANTS
  q1 = q1
  q2 = q2
  p1 = p1
  Requests = {q1, q2}
  Playbooks = {p1}
  CreateBodies <- Creations
  Bodies <- Patches
  SentinelBodies <- Sentinels
  Typings <- Edited
  MaxInputs = 4
SPECIFICATION SettingsSpec
SYMMETRY Alike
INVARIANTS
  
  SaveHeals
PROPERTIES
  PatchesKeepTheRest
  FormKeepsMeaning
CHECK_DEADLOCK FALSE
