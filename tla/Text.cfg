SPECIFICATION Spec
CONSTANTS
  Words = {ls, cat}
  Numbers = {1}
  UserIds = {1, 2}
  Values = {"", "v"}
  MaxTokens = 5
  MaxText = 4
INVARIANTS ParsesAsWritten UsersOfOwnLine SessionsHaveColumns EscapedTextShows
CHECK_DEADLOCK FALSE
