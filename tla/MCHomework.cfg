SPECIFICATION Spec
CONSTANTS
  Workers = {w1, w2}
  Homeworks = {"1", "11"}
  Classes = {"a", "b"}
  Students = {"ann", "bob"}
  Names = {"x", "1x", ""}
  NoName = ""
  Paths = {"p", "q"}
  Tables <- MCTables
  TableOf <- MCTableOf
  Members <- MCMembers
  Titles = 2
  Scores = {1}
  Stored <- MCStored
  Budgets <- MCBudgets
  Absent = Absent
SYMMETRY Symmetry
CHECK_DEADLOCK FALSE
INVARIANTS TypeOK TableKept TableUnshared CountsDescend ReportComplete ScoredBeforeClose TotalIsOwn TextBehindRow
PROPERTY LifeOfHomework
