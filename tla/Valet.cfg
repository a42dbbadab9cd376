SPECIFICATION ValetSpec
CONSTANTS
  nginx = nginx
  webserver = webserver
  web_service = web_service
  Seed = {nginx}
  Pack = {webserver}
  PackOf <- MCPackOf
  Sign = {web_service}
  SignsOf <- MCSignsOf
  MaxBoots = 3
  Session = {alice}
  Request = {openwebui}
  Body <- MCBody
  MaxSaid = 3
CHECK_DEADLOCK FALSE
INVARIANTS
  ValetTypeOK
  SeededOnce
  TokenOutlivesRestarts
  PacksLagTheScan
  ModelHearsOwnTurn
  EndedSessionLeavesATrace
