SPECIFICATION Spec
CONSTANTS c1 = c1  c2 = c2  c3 = c3
  Clients = {c1, c2, c3}
  Texts = {"ann", "al", "a@x", "b@x"}
  Names <- TypedNames
  Emails <- TypedEmails
  Passwords = {"p", "q"}
  Malformed = {"al"}
SYMMETRY Symmetry
INVARIANTS OneAccountEach CreatedCanLogIn RefusedIsTaken
