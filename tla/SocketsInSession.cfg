SPECIFICATION SocketsFairSpec
CONSTANTS u1 = u1  u2 = u2  own = own
  Users = {u1, u2}
  NoUser = NoUser
  Conversations = {own}
  MemberOf <- FirstsOwn
  MaxClicks = 1
  K = 2
INVARIANTS UserIsTokens ShowsOwn MappedIsOwn StrayOnlyIfOrphaned SilentOnlyIfLost
PROPERTIES BootEnds
