SPECIFICATION Spec
CONSTANTS
  MaxKids = 2
  Names <- MCNames
  Longer <- MCLonger
  Pwds = {p1, p2}
  Clients = {1, 2}
  Worlds <- MCWorlds
  Uses <- MCUses
  Start <- MCStart
  ForeignKeys <- MCForeignKeys
  Chain <- MCChain
  Replacing <- MCReplacing
  Quota <- MCQuota
INVARIANT TablesAgree
 
 
CHECK_DEADLOCK FALSE
