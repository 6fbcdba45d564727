SPECIFICATION Spec
CONSTANTS
  Thread = {th1, th2, th3}
  NoThread = NoThread
  here = here
  ir1 = ir1
  ir2 = ir2
  Loc = {here}
  Ir = {ir1, ir2}
  NULL = NULL
  Construct <- Constructs
  Template = Template
SYMMETRY ThreadSymmetry
INVARIANT TypeOK OneInTable OneFormatPerKey RightFormat
PROPERTY ImplementsTable
