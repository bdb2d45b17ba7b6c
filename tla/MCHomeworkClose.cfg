SPECIFICATION Spec
CONSTANTS
  Workers = {w1}
  Homeworks = {"1"}
  Classes = {"a"}
  Students = {"ann", "bob"}
  Names = {"x", "1x"}
  NoName = ""
  Paths = {"p"}
  Tables <- MCTables
  TableOf <- MCTableOf
  Members <- MCMembers
  Titles = 1
  Scores = {0, 1}
  Stored <- MCStored
  Budgets <- MCCloseBudgets
  Absent = Absent
CHECK_DEADLOCK FALSE
PROPERTY ClosesWhenChecked
