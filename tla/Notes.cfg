CONSTANTS
  p1 = p1  p2 = p2
  a = a  b = b  c = c
  k1 = k1  k2 = k2
  State = State  Session = Session  NoTask = NoTask  NoFile = NoFile
  Procs = {p1, p2}
  Tasks = {a, b, c}
  Writers = {a, b, c}
  ProcOf <- TwoAndOne
  DoorChoices <- HandlerOrLibrary
  KindsOf <- SharedOut
  Topics = {k1}
  Files = {k1, State}
  DirOf <- NoteDirAndRoot
  Dirs = {"note", "session"}
  ParentOf <- NoteInSession
  MaxNote = 2
SPECIFICATION Spec
SYMMETRY Symmetry
INVARIANTS
  TypeOK
  UndisturbedIsExact
PROPERTIES
  OwnAppendsKept
  
  NotesStayVisible
