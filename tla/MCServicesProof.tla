--------------------------- MODULE MCServicesProof ---------------------------
(***************************************************************************)
(* What the proofs about the services say of the composition that TLC      *)
(* checks, MCServices: each service keeps its inductive invariant while it *)
(* is the one that was chosen.                                             *)
(***************************************************************************)
EXTENDS MCServices, TLAPS

\* The inductive invariant, of the service that runs.
PropsInv == Runs("props") => Properties!IInv

-----------------------------------------------------------------------------
(* The property database. *)

\* The instance is one the theorems of PropDbProof are about.
LEMMA PropsAssumptions == Properties!Assumptions
BY ServicesAssumption DEF Properties!Assumptions

\* The database starts in its invariant.
LEMMA PropsStart ==
  ASSUME Init
  PROVE  PropsInv
<1>1. ASSUME Runs("props") PROVE Properties!IInv
  <2>1. Properties!Init
    BY <1>1 DEF Init, Runs
  <2> QED BY <2>1, PropsAssumptions, Properties!Starts
<1> QED BY <1>1 DEF PropsInv

\* Its steps keep the invariant, and no other service takes a step of its.
LEMMA PropsSteps ==
  ASSUME PropsInv, [Next]_vars
  PROVE  PropsInv'
<1>1. CASE PropertiesStep
  <2>1. Properties!Next /\ Properties!IInv
    BY <1>1 DEF PropsInv, PropertiesStep
  <2>2. Properties!IInv'
    BY <2>1, PropsAssumptions, Properties!Steps
  <2> QED BY <2>2 DEF PropsInv
<1>2. CASE UNCHANGED vars
  <2>1. CASE Runs("props")
    <3>1. UNCHANGED Properties!vars
      BY <1>2 DEF vars, Properties!vars, Properties!store, Properties!wires, Properties!past, Properties!hist
    <3>2. Properties!IInv'
      BY <2>1, <3>1, PropsAssumptions, Properties!Steps DEF PropsInv
    <3> QED BY <3>2 DEF PropsInv
  <2>2. CASE ~Runs("props")
    BY <1>2, <2>2 DEF PropsInv, Runs, vars
  <2> QED BY <2>1, <2>2
<1>3. CASE Next /\ ~PropertiesStep
  <2>1. ~Runs("props") /\ which' = which
    BY <1>3 DEF Next, PlainStep, CountingStep, HubStep, AskingStep, SchedulerStep, SavingStep, EventsStep,
                LedsStep, ShellStep, LineStep, LossyStep, RingStep, SingleStep,
                BlocksStep, TearingStep, Runs
  <2> QED BY <2>1 DEF PropsInv, Runs
<1> QED BY <1>1, <1>2, <1>3

\* PropsAreSound: in the composition, the strings of properties are owned and changes are
\* on their way to the log, in every run of any length.
THEOREM PropertiesAreSound == Spec => []PropsAreSound
<1>1. PropsInv => PropsAreSound
  BY PropsAssumptions, Properties!InvTypes, Properties!InvStrings, Properties!InvPending
  DEF PropsInv, PropsAreSound
<1> QED BY <1>1, PropsStart, PropsSteps, PTL DEF Spec

-----------------------------------------------------------------------------
(* The message hub, with and without a query. *)

HubInv == Runs("hub") => Hub!IInv
AskingInv == Runs("query") => Asking!IInv

\* The instances are ones the theorems of UmsgProof are about.
LEMMA HubAssumptions == Hub!Assumptions /\ Asking!Assumptions
BY ServicesAssumption DEF Hub!Assumptions, Asking!Assumptions

\* The hub starts in its invariant.
LEMMA HubStart ==
  ASSUME Init
  PROVE  HubInv /\ AskingInv
<1>1. ASSUME Runs("hub") PROVE Hub!IInv
  <2>1. Hub!Init
    BY <1>1 DEF Init, Runs
  <2> QED BY <2>1, HubAssumptions, Hub!Starts
<1>2. ASSUME Runs("query") PROVE Asking!IInv
  <2>1. Asking!Init
    BY <1>2 DEF Init, Runs
  <2> QED BY <2>1, HubAssumptions, Asking!Starts
<1> QED BY <1>1, <1>2 DEF HubInv, AskingInv

\* The steps of the hub without a query.
LEMMA HubSteps ==
  ASSUME HubInv, [Next]_vars
  PROVE  HubInv'
<1>1. CASE HubStep
  <2>1. Hub!Next /\ Hub!IInv
    BY <1>1 DEF HubInv, HubStep
  <2>2. Hub!IInv'
    BY <2>1, HubAssumptions, Hub!Steps
  <2> QED BY <2>2 DEF HubInv
<1>2. CASE UNCHANGED vars
  <2>1. CASE Runs("hub")
    <3>1. UNCHANGED Hub!vars
      BY <1>2 DEF vars, Hub!vars, Hub!lists, Hub!hubvars
    <3>2. Hub!IInv'
      BY <2>1, <3>1, HubAssumptions, Hub!Steps DEF HubInv
    <3> QED BY <3>2 DEF HubInv
  <2>2. CASE ~Runs("hub")
    BY <1>2, <2>2 DEF HubInv, Runs, vars
  <2> QED BY <2>1, <2>2
<1>3. CASE Next /\ ~HubStep
  <2>1. ~Runs("hub") /\ which' = which
    BY <1>3 DEF Next, PlainStep, CountingStep, PropertiesStep, AskingStep, SchedulerStep, SavingStep, EventsStep,
                LedsStep, ShellStep, LineStep, LossyStep, RingStep, SingleStep,
                BlocksStep, TearingStep, Runs
  <2> QED BY <2>1 DEF HubInv, Runs
<1> QED BY <1>1, <1>2, <1>3

\* Those with one.
LEMMA AskingSteps ==
  ASSUME AskingInv, [Next]_vars
  PROVE  AskingInv'
<1>1. CASE AskingStep
  <2>1. Asking!Next /\ Asking!IInv
    BY <1>1 DEF AskingInv, AskingStep
  <2>2. Asking!IInv'
    BY <2>1, HubAssumptions, Asking!Steps
  <2> QED BY <2>2 DEF AskingInv
<1>2. CASE UNCHANGED vars
  <2>1. CASE Runs("query")
    <3>1. UNCHANGED Asking!vars
      BY <1>2 DEF vars, Asking!vars, Asking!lists, Asking!hubvars
    <3>2. Asking!IInv'
      BY <2>1, <3>1, HubAssumptions, Asking!Steps DEF AskingInv
    <3> QED BY <3>2 DEF AskingInv
  <2>2. CASE ~Runs("query")
    BY <1>2, <2>2 DEF AskingInv, Runs, vars
  <2> QED BY <2>1, <2>2
<1>3. CASE Next /\ ~AskingStep
  <2>1. ~Runs("query") /\ which' = which
    BY <1>3 DEF Next, PlainStep, CountingStep, PropertiesStep, HubStep, SchedulerStep, SavingStep, EventsStep,
                LedsStep, ShellStep, LineStep, LossyStep, RingStep, SingleStep,
                BlocksStep, TearingStep, Runs
  <2> QED BY <2>1 DEF AskingInv, Runs
<1> QED BY <1>1, <1>2, <1>3

\* HubIsSound: in the composition, references are holders, and the target of a query is in
\* the list until the query takes it out.
THEOREM HubStaysSound == Spec => []HubIsSound
<1>1. HubInv => (Runs("hub") => Hub!TypeOK /\ Hub!RefsAreHolders)
  BY HubAssumptions, Hub!InvTypes, Hub!InvRefs DEF HubInv
<1>2. AskingInv => (Runs("query") => Asking!TypeOK /\ Asking!QueryIsListed)
  BY HubAssumptions, Asking!InvTypes, Asking!InvListed DEF AskingInv
<1>3. HubInv /\ AskingInv => HubIsSound
  BY <1>1, <1>2 DEF HubIsSound
<1> QED BY <1>3, HubStart, HubSteps, AskingSteps, PTL DEF Spec

\* HubReachesAll: in the composition, whoever stays subscribed is reached, unless the target
\* that the hub is at is taken out or freed.
THEOREM HubStillReachesAll == Spec => []HubReachesAll
<1>1. HubInv /\ AskingInv => HubReachesAll
  BY Hub!InvReached, Asking!InvReached DEF HubInv, AskingInv, HubReachesAll
<1> QED BY <1>1, HubStart, HubSteps, AskingSteps, PTL DEF Spec

-----------------------------------------------------------------------------
(* The error logs. *)

\* The inductive invariant, of the log that was chosen.
ErrorsInv == /\ Runs("ring") => Ring!LogInv
             /\ Runs("single") => Single!LogInv

\* The instances are ones the theorems of ErrorLogProof are about.
LEMMA ErrorLogAssumptions == Ring!Assumptions /\ Single!Assumptions
BY ServicesAssumption DEF Ring!Assumptions, Single!Assumptions

\* An error log starts in its invariant.
LEMMA ErrorsStart ==
  ASSUME Init
  PROVE  ErrorsInv
<1>1. ASSUME Runs("ring") PROVE Ring!LogInv
  <2>1. Ring!Init
    BY <1>1 DEF Init, Runs
  <2> QED BY <2>1, ErrorLogAssumptions, Ring!StartsInOrder
<1>2. ASSUME Runs("single") PROVE Single!LogInv
  <2>1. Single!Init
    BY <1>2 DEF Init, Runs
  <2> QED BY <2>1, ErrorLogAssumptions, Single!StartsInOrder
<1> QED BY <1>1, <1>2 DEF ErrorsInv

\* Its steps keep the invariant, and the other log takes no step.
LEMMA ErrorsStep ==
  ASSUME ErrorsInv, [Next]_vars
  PROVE  ErrorsInv'
<1>1. which' = which
  BY DEF Next, PlainStep, CountingStep, HubStep, AskingStep, PropertiesStep, SchedulerStep, SavingStep, EventsStep,
         LedsStep, ShellStep, LineStep, LossyStep, RingStep, SingleStep, BlocksStep, TearingStep, vars
<1>2. ASSUME Runs("ring") PROVE Ring!LogInv'
  <2>1. Ring!LogInv
    BY <1>2 DEF ErrorsInv
  <2>2. Ring!Next \/ UNCHANGED Ring!vars
    <3>1. CASE Next
      BY <1>2, <3>1 DEF Next, PlainStep, CountingStep, HubStep, AskingStep, PropertiesStep, SchedulerStep, SavingStep, EventsStep,
         LedsStep, ShellStep, LineStep, LossyStep, RingStep, SingleStep, BlocksStep, TearingStep, Runs
    <3>2. CASE UNCHANGED vars
      BY <3>2 DEF vars, Ring!vars, Ring!ram, Ring!iter, Ring!past
    <3> QED BY <3>1, <3>2
  <2> QED BY <2>1, <2>2, ErrorLogAssumptions, Ring!StepsInOrder
<1>3. ASSUME Runs("single") PROVE Single!LogInv'
  <2>1. Single!LogInv
    BY <1>3 DEF ErrorsInv
  <2>2. Single!Next \/ UNCHANGED Single!vars
    <3>1. CASE Next
      BY <1>3, <3>1 DEF Next, PlainStep, CountingStep, HubStep, AskingStep, PropertiesStep, SchedulerStep, SavingStep, EventsStep,
         LedsStep, ShellStep, LineStep, LossyStep, RingStep, SingleStep, BlocksStep, TearingStep, Runs
    <3>2. CASE UNCHANGED vars
      BY <3>2 DEF vars, Single!vars, Single!ram, Single!iter, Single!past
    <3> QED BY <3>1, <3>2
  <2> QED BY <2>1, <2>2, ErrorLogAssumptions, Single!StepsInOrder
<1> QED BY <1>1, <1>2, <1>3 DEF ErrorsInv, Runs

\* NoEntryWrittenOver: in the composition, errlog_write programs an erased slot, or one
\* where programming failed, in every run of any length.
THEOREM ErrorsAreKept == Spec => []NoEntryWrittenOver
<1>1. ErrorsInv => NoEntryWrittenOver
  <2>1. Ring!LogInv => Ring!NoEntryWrittenOver
    BY ErrorLogAssumptions, Ring!InvWritten DEF Ring!LogInv
  <2>2. Single!LogInv => Single!NoEntryWrittenOver
    BY ErrorLogAssumptions, Single!InvWritten DEF Single!LogInv
  <2> QED BY <2>1, <2>2 DEF ErrorsInv, NoEntryWrittenOver
<1> QED BY <1>1, ErrorsStart, ErrorsStep, PTL DEF Spec

\* KeepsNewest: in the composition, the error log gives up its oldest entries only, and
\* no more than it must.
THEOREM NewestErrorsAreKept == Spec => []KeepsNewest
<1>1. ErrorsInv => KeepsNewest
  <2>1. Ring!LogInv => Ring!KeepsNewest
    BY DEF Ring!LogInv, Ring!Sound, Ring!Kept, Ring!KeepsNewest
  <2>2. Single!LogInv => Single!KeepsNewest
    BY DEF Single!LogInv, Single!Sound, Single!Kept, Single!KeepsNewest
  <2> QED BY <2>1, <2>2 DEF ErrorsInv, KeepsNewest
<1> QED BY <1>1, ErrorsStart, ErrorsStep, PTL DEF Spec

\* ErrorsReadInOrder: in the composition, the error log reads back every entry it holds,
\* oldest first, after every mount.
THEOREM ErrorsAreReadInOrder == Spec => []ErrorsReadInOrder
<1>1. ErrorsInv => ErrorsReadInOrder
  <2>1. Ring!LogInv => Ring!ReadsAllInOrder
    BY ErrorLogAssumptions, Ring!ReadsAll
  <2>2. Single!LogInv => Single!ReadsAllInOrder
    BY ErrorLogAssumptions, Single!ReadsAll
  <2> QED BY <2>1, <2>2 DEF ErrorsInv, ErrorsReadInOrder
<1> QED BY <1>1, ErrorsStart, ErrorsStep, PTL DEF Spec

-----------------------------------------------------------------------------
(* The property log, without torn blocks and with them. *)

\* The inductive invariants: only the types when blocks are torn.
BlocksInv  == Runs("blocks") => Blocks!LogInv
TearingInv == Runs("torn") => Tearing!TypeInv

\* The instances are ones the theorems of LogDbProof are about.
LEMMA LogDbAssumptions ==
  /\ Blocks!Assumptions /\ Blocks!RoomAssumption
  /\ Tearing!Assumptions
BY ServicesAssumption DEF Blocks!Assumptions, Blocks!RoomAssumption, Tearing!Assumptions

\* A property log starts in its invariant.
LEMMA BlocksStart ==
  ASSUME Init
  PROVE  BlocksInv /\ TearingInv
<1>1. ASSUME Runs("blocks") PROVE Blocks!LogInv
  <2>1. Blocks!Init
    BY <1>1 DEF Init, Runs
  <2> QED BY <2>1, LogDbAssumptions, Blocks!LogStarts
<1>2. ASSUME Runs("torn") PROVE Tearing!TypeInv
  <2>1. Tearing!Init
    BY <1>2 DEF Init, Runs
  <2> QED BY <2>1, LogDbAssumptions, Tearing!TypesStart
<1> QED BY <1>1, <1>2 DEF BlocksInv, TearingInv

\* While a log runs, all steps are its own.
LEMMA BlocksRun ==
  ASSUME Runs("blocks"), [Next]_vars
  PROVE  [Blocks!Next]_(Blocks!vars)
<1>1. CASE Next
  BY <1>1 DEF Next, PlainStep, CountingStep, HubStep, AskingStep, PropertiesStep, SchedulerStep, SavingStep, EventsStep,
     LedsStep, ShellStep, LineStep, LossyStep, RingStep, SingleStep, BlocksStep, TearingStep, Runs
<1>2. CASE UNCHANGED vars
  BY <1>2 DEF vars, Blocks!vars, Blocks!ram, Blocks!iter
<1> QED BY <1>1, <1>2

\* The same of the log with torn blocks.
LEMMA TearingRuns ==
  ASSUME Runs("torn"), [Next]_vars
  PROVE  [Tearing!Next]_(Tearing!vars)
<1>1. CASE Next
  BY <1>1 DEF Next, PlainStep, CountingStep, HubStep, AskingStep, PropertiesStep, SchedulerStep, SavingStep, EventsStep,
     LedsStep, ShellStep, LineStep, LossyStep, RingStep, SingleStep, BlocksStep, TearingStep, Runs
<1>2. CASE UNCHANGED vars
  BY <1>2 DEF vars, Tearing!vars, Tearing!ram, Tearing!iter
<1> QED BY <1>1, <1>2

\* They keep the invariants.
LEMMA BlocksSteps ==
  ASSUME BlocksInv, TearingInv, [Next]_vars
  PROVE  BlocksInv' /\ TearingInv'
<1>1. which' = which
  BY DEF Next, PlainStep, CountingStep, HubStep, AskingStep, PropertiesStep, SchedulerStep, SavingStep, EventsStep,
         LedsStep, ShellStep, LineStep, LossyStep, RingStep, SingleStep, BlocksStep, TearingStep, vars
<1>2. ASSUME Runs("blocks") PROVE Blocks!LogInv'
  <2>1. Blocks!LogInv /\ [Blocks!Next]_(Blocks!vars)
    BY <1>2, BlocksRun DEF BlocksInv
  <2> QED BY <2>1, LogDbAssumptions, Blocks!LogStays
<1>3. ASSUME Runs("torn") PROVE Tearing!TypeInv'
  <2>1. Tearing!TypeInv /\ [Tearing!Next]_(Tearing!vars)
    BY <1>3, TearingRuns DEF TearingInv
  <2> QED BY <2>1, LogDbAssumptions, Tearing!TypesStay
<1> QED BY <1>1, <1>2, <1>3 DEF BlocksInv, TearingInv, Runs

\* LogsTyped: in the composition, the offsets of all logs stay in the flash, after power
\* failures and torn blocks too.
THEOREM LogsStayTyped == Spec => []LogsTyped
<1>1. ErrorsInv /\ BlocksInv /\ TearingInv => LogsTyped
  <2>1. Ring!LogInv => Ring!TypeOK
    BY DEF Ring!LogInv, Ring!WriteInv
  <2>2. Single!LogInv => Single!TypeOK
    BY DEF Single!LogInv, Single!WriteInv
  <2>3. Blocks!LogInv => Blocks!TypeOK
    BY DEF Blocks!LogInv, Blocks!TypeInv
  <2>4. Tearing!TypeInv => Tearing!TypeOK
    BY DEF Tearing!TypeInv
  <2> QED BY <2>1, <2>2, <2>3, <2>4 DEF ErrorsInv, BlocksInv, TearingInv, LogsTyped
<1> QED BY <1>1, ErrorsStart, ErrorsStep, BlocksStart, BlocksSteps, PTL DEF Spec

\* WritesToErased: in the composition, logdb_write_block programs erased cells only.
THEOREM BlocksGoToErased == Spec => []WritesToErased
<1>1. BlocksInv => WritesToErased
  <2>1. Blocks!LogInv => Blocks!WritesToErased
    BY LogDbAssumptions, Blocks!FlatIs, Blocks!ErasedAhead DEF Blocks!LogInv
  <2> QED BY <2>1 DEF BlocksInv, WritesToErased
<1> QED BY <1>1, BlocksStart, BlocksSteps, PTL DEF Spec

\* SafeIsKept: in the composition, the last acknowledged block or a newer one is delivered
\* by logdb_read_last whenever the log is mounted.
THEOREM SafeBlocksAreKept == Spec => []SafeIsKept
<1>1. BlocksInv => SafeIsKept
  <2>1. Blocks!LogInv => Blocks!SafeIsKept
    BY LogDbAssumptions, Blocks!KeepsSafe
  <2> QED BY <2>1 DEF BlocksInv, SafeIsKept
<1> QED BY <1>1, BlocksStart, BlocksSteps, PTL DEF Spec

\* BlocksReadInOrder: in the composition, the iterator delivers every block, oldest first.
THEOREM BlocksAreReadInOrder == Spec => []BlocksReadInOrder
<1>1. BlocksInv => BlocksReadInOrder
  <2>1. Blocks!LogInv => Blocks!ReadsAllInOrder
    BY LogDbAssumptions, Blocks!ReadsAll
  <2> QED BY <2>1 DEF BlocksInv, BlocksReadInOrder
<1> QED BY <1>1, BlocksStart, BlocksSteps, PTL DEF Spec

\* ImplementsHistory: in the composition, the property log gives up its blocks oldest first
\* and never the newest, whenever power fails.
THEOREM BlocksAreAHistory == Spec => ImplementsHistory
<1> DEFINE HeldInv == Runs("blocks") => Blocks!Held
<1>1. Init => (Runs("blocks") => Blocks!H!Init)
  <2> SUFFICES ASSUME Init, Runs("blocks") PROVE Blocks!H!Init
    OBVIOUS
  <2>1. Blocks!Init
    BY DEF Init, Runs
  <2> QED BY <2>1, LogDbAssumptions, Blocks!HistoryStarts
<1>2. BlocksInv => HeldInv
  BY LogDbAssumptions, Blocks!HeldIs DEF BlocksInv
<1>3. BlocksInv /\ HeldInv /\ HeldInv' /\ [Next]_vars
        => [Runs("blocks") => [Blocks!H!Next]_(Blocks!H!vars)]_vars
  <2> SUFFICES ASSUME BlocksInv, HeldInv, HeldInv', [Next]_vars, Runs("blocks"), ~UNCHANGED vars
               PROVE  [Blocks!H!Next]_(Blocks!H!vars)
    OBVIOUS
  <2>1. [Blocks!Next]_(Blocks!vars)
    BY BlocksRun
  <2>2. Runs("blocks")'
    BY DEF Next, PlainStep, CountingStep, HubStep, AskingStep, PropertiesStep, SchedulerStep, SavingStep, EventsStep,
           LedsStep, ShellStep, LineStep, LossyStep, RingStep, SingleStep, BlocksStep, TearingStep, vars, Runs
  <2>3. Blocks!LogInv /\ Blocks!Held /\ Blocks!Held'
    BY <2>2 DEF BlocksInv
  <2> QED BY <2>1, <2>3, LogDbAssumptions, Blocks!HistorySteps
<1> QED BY <1>1, <1>2, <1>3, BlocksStart, BlocksSteps, PTL DEF Spec, ImplementsHistory

-----------------------------------------------------------------------------
(* The line of the shell. *)

LineIInv == Runs("line") => Line!IInv

\* The instance is one the theorems of ShellLineProof are about.
LEMMA LineAssumption == Line!ShellAssumption
BY ServicesAssumption

\* The line starts in its invariant.
LEMMA LineStarts ==
  ASSUME Init
  PROVE  LineIInv
<1>1. ASSUME Runs("line") PROVE Line!IInv
  <2>1. Line!Init
    BY <1>1 DEF Init, Runs
  <2> QED BY <2>1, LineAssumption, Line!Starts
<1> QED BY <1>1 DEF LineIInv

\* While the shell runs, all steps are its own.
LEMMA LineRuns ==
  ASSUME Runs("line"), [Next]_vars
  PROVE  [Line!Next]_(Line!vars)
<1>1. CASE Next
  BY <1>1 DEF Next, PlainStep, CountingStep, HubStep, AskingStep, PropertiesStep, SchedulerStep, SavingStep, EventsStep,
     LedsStep, ShellStep, LineStep, LossyStep, RingStep, SingleStep, BlocksStep, TearingStep, Runs
<1>2. CASE UNCHANGED vars
  BY <1>2 DEF vars, Line!vars
<1> QED BY <1>1, <1>2

\* They keep the invariant.
LEMMA LineSteps ==
  ASSUME LineIInv, [Next]_vars
  PROVE  LineIInv'
<1>1. which' = which
  BY DEF Next, PlainStep, CountingStep, HubStep, AskingStep, PropertiesStep, SchedulerStep, SavingStep, EventsStep,
         LedsStep, ShellStep, LineStep, LossyStep, RingStep, SingleStep, BlocksStep, TearingStep, vars
<1>2. ASSUME Runs("line") PROVE Line!IInv'
  <2>1. Line!IInv /\ [Line!Next]_(Line!vars)
    BY <1>2, LineRuns DEF LineIInv
  <2> QED BY <2>1, LineAssumption, Line!Steps
<1> QED BY <1>1, <1>2 DEF LineIInv, Runs

\* LineIsSound: in the composition, a command is handed over as it was edited, the prompt is
\* missing only for a cause, and kills overrun the buffer by less than a line, whatever keys
\* are pressed.
THEOREM LinesAreSound == Spec => []LineIsSound
<1>1. LineIInv => LineIsSound
  <2>1. Line!IInv => Line!EntersWhatIsEdited /\ Line!PromptHeldForCause /\ Line!OverrunIsBounded
    BY LineAssumption, Line!InvEnters, Line!InvPrompt
  <2> QED BY <2>1 DEF LineIInv, LineIsSound
<1> QED BY <1>1, LineStarts, LineSteps, PTL DEF Spec

-----------------------------------------------------------------------------
(* The queue that overwrites, and the refinements. *)

LossyInv == Runs("lossy") => Lossy!IInv /\ Lossy!DataInv /\ Lossy!FifoInv

\* The instance is one the theorems of IsrQueueProof are about: one task is both sides.
LEMMA LossyAssumptions ==
  /\ Lossy!NAssumption /\ Lossy!ValuesAssumption /\ Lossy!MaxLenAssumption
  /\ Lossy!OverwriteAssumption /\ Lossy!ModeAssumption
  /\ Lossy!OneMovesTail
BY ServicesAssumption DEF Lossy!NAssumption, Lossy!ValuesAssumption, Lossy!MaxLenAssumption,
   Lossy!OverwriteAssumption, Lossy!ModeAssumption, Lossy!OneMovesTail

\* The queue starts in its invariant.
LEMMA LossyStarts ==
  ASSUME Init
  PROVE  LossyInv /\ (Runs("lossy") => Lossy!Abs!Init)
<1>1. ASSUME Runs("lossy") PROVE Lossy!IInv /\ Lossy!DataInv /\ Lossy!FifoInv /\ Lossy!Abs!Init
  <2>1. Lossy!Init
    BY <1>1 DEF Init, Runs
  <2> QED BY <2>1, LossyAssumptions, Lossy!InitInv, Lossy!FifoStarts
<1> QED BY <1>1 DEF LossyInv

\* While it runs, all steps are its own.
LEMMA LossyRuns ==
  ASSUME Runs("lossy"), [Next]_vars
  PROVE  [Lossy!Next]_(Lossy!vars)
<1>1. CASE Next
  BY <1>1 DEF Next, PlainStep, CountingStep, HubStep, AskingStep, PropertiesStep, SchedulerStep, SavingStep, EventsStep,
     LedsStep, ShellStep, LineStep, LossyStep, RingStep, SingleStep, BlocksStep, TearingStep, Runs
<1>2. CASE UNCHANGED vars
  BY <1>2 DEF vars, Lossy!vars, Lossy!shared, Lossy!pvars, Lossy!cvars
<1> QED BY <1>1, <1>2

\* They keep the invariant, and are steps of a queue.
LEMMA LossySteps ==
  ASSUME LossyInv, [Next]_vars
  PROVE  LossyInv' /\ (Runs("lossy") => [Lossy!Abs!Next]_(Lossy!Abs!vars))
<1>1. which' = which
  BY DEF Next, PlainStep, CountingStep, HubStep, AskingStep, PropertiesStep, SchedulerStep, SavingStep, EventsStep,
         LedsStep, ShellStep, LineStep, LossyStep, RingStep, SingleStep, BlocksStep, TearingStep, vars
<1>2. ASSUME Runs("lossy")
      PROVE  Lossy!IInv' /\ Lossy!DataInv' /\ Lossy!FifoInv' /\ [Lossy!Abs!Next]_(Lossy!Abs!vars)
  <2>1. Lossy!IInv /\ Lossy!DataInv /\ Lossy!FifoInv /\ [Lossy!Next]_(Lossy!vars)
    BY <1>2, LossyRuns DEF LossyInv
  <2>2. Lossy!IInv'
    BY <2>1, LossyAssumptions, Lossy!InvSteps
  <2> QED BY <2>1, <2>2, LossyAssumptions, Lossy!FifoSteps
<1> QED BY <1>1, <1>2 DEF LossyInv, Runs

\* ImplementsAbstract: in the composition, the line is a text editor's and the overwriting
\* queue a queue that gives up its oldest element, in runs of any length.
THEOREM AbstractIsImplemented == Spec => ImplementsAbstract
<1>1. Init => (Runs("line") => Line!Abstract!Init) /\ (Runs("lossy") => Lossy!Abs!Init)
  <2>1. ASSUME Init, Runs("line") PROVE Line!Abstract!Init
    <3>1. Line!Init
      BY <2>1 DEF Init, Runs
    <3> QED BY <3>1, LineAssumption, Line!EditorStarts
  <2> QED BY <2>1, LossyStarts
<1>2. LineIInv /\ LossyInv /\ [Next]_vars
        => [/\ Runs("line") => [Line!Abstract!Next]_(Line!Abstract!vars)
            /\ Runs("lossy") => [Lossy!Abs!Next]_(Lossy!Abs!vars)]_vars
  <2> SUFFICES ASSUME LineIInv, LossyInv, [Next]_vars
               PROVE  /\ Runs("line") => [Line!Abstract!Next]_(Line!Abstract!vars)
                      /\ Runs("lossy") => [Lossy!Abs!Next]_(Lossy!Abs!vars)
    OBVIOUS
  <2>1. ASSUME Runs("line") PROVE [Line!Abstract!Next]_(Line!Abstract!vars)
    <3>1. Line!IInv /\ [Line!Next]_(Line!vars)
      BY <2>1, LineRuns DEF LineIInv
    <3> QED BY <3>1, LineAssumption, Line!LineRefines
  <2> QED BY <2>1, LossySteps
<1> QED BY <1>1, <1>2, LineStarts, LineSteps, LossyStarts, LossySteps, PTL DEF Spec, ImplementsAbstract

-----------------------------------------------------------------------------
(* The memory pools. *)

PlainInv == Runs("pool") => Properties!PoolInv /\ Properties!ElementInv
CountingInv == Runs("counted") => Counting!PoolInv

\* Both instances are ones whose pools have the room they need.
LEMMA PoolAssumptions ==
  Properties!SizeAssumption /\ Counting!SizeAssumption
BY ServicesAssumption

\* There are no pools at the start.
LEMMA PoolsStart ==
  ASSUME Init
  PROVE  PlainInv /\ CountingInv
<1>1. ASSUME Runs("pool") PROVE Properties!PoolInit
  BY <1>1 DEF Init, Runs
<1>2. ASSUME Runs("counted") PROVE Counting!PoolInit
  BY <1>2 DEF Init, Runs
<1> QED BY <1>1, <1>2, Properties!PoolStarts, Counting!PoolStarts DEF PlainInv, CountingInv

\* While the pools run, all steps are theirs.
LEMMA PoolsRun ==
  ASSUME [Next]_vars
  PROVE  /\ which' = which
         /\ Runs("pool") => [Properties!PoolNext]_vars
         /\ Runs("counted") => [Counting!PoolNext]_vars
<1>1. CASE Next
  BY <1>1 DEF Next, PlainStep, CountingStep, HubStep, AskingStep, PropertiesStep, SchedulerStep, SavingStep, EventsStep,
     LedsStep, ShellStep, LineStep, LossyStep, RingStep, SingleStep, BlocksStep, TearingStep, Runs
<1>2. CASE UNCHANGED vars
  BY <1>2 DEF vars
<1> QED BY <1>1, <1>2

\* They keep the invariant, and an allocation is the tightest.
LEMMA PoolsStep ==
  ASSUME PlainInv, CountingInv, [Next]_vars
  PROVE  /\ PlainInv' /\ CountingInv'
         /\ [/\ Runs("pool") => Properties!TakesTightest
             /\ Runs("counted") => Counting!TakesTightest]_vars
<1>1. UNCHANGED vars => UNCHANGED Properties!poolVars /\ UNCHANGED Counting!poolVars
  BY DEF vars, Properties!poolVars, Counting!poolVars
<1>2. ASSUME Runs("pool")
      PROVE  Properties!PoolInv' /\ Properties!ElementInv' /\ [Properties!TakesTightest]_vars
  <2>1. CASE UNCHANGED vars
    BY <1>1, <1>2, <2>1, PoolAssumptions, Properties!PoolSteps DEF PlainInv
  <2>2. CASE Properties!PoolNext
    BY <1>2, <2>2, PoolAssumptions, Properties!PoolKeeps, Properties!ElementKeeps DEF PlainInv
  <2> QED BY <1>2, <2>1, <2>2, PoolsRun
<1>3. ASSUME Runs("counted")
      PROVE  Counting!PoolInv' /\ [Counting!TakesTightest]_vars
  <2>1. CASE UNCHANGED vars
    BY <1>1, <1>3, <2>1, PoolAssumptions, Counting!PoolSteps DEF CountingInv
  <2>2. CASE Counting!PoolNext
    BY <1>3, <2>2, PoolAssumptions, Counting!PoolKeeps DEF CountingInv
  <2> QED BY <1>3, <2>1, <2>2, PoolsRun
<1>4. (Runs("pool") <=> Runs("pool")') /\ (Runs("counted") <=> Runs("counted")')
  BY PoolsRun DEF Runs
<1>5. PlainInv' /\ CountingInv'
  BY <1>2, <1>3, <1>4 DEF PlainInv, CountingInv
<1> QED BY <1>2, <1>3, <1>5

\* PoolsAreSound: whatever pools are made and released, and whatever clients allocate, move
\* and free, no element is lost, handed out twice or written by another, and the pools stay
\* in their memory; for any kinds of pools and any requests.
THEOREM PoolsStaySound == Spec => []PoolsAreSound
<1>1. PlainInv /\ CountingInv => PoolsAreSound
  BY PoolAssumptions, Properties!PoolsSound, Counting!PoolsSound, Properties!ElementsSound
     DEF PlainInv, CountingInv, PoolsAreSound
<1>2. PlainInv /\ CountingInv /\ [Next]_vars => (PlainInv /\ CountingInv)'
  BY PoolsStep
<1> QED BY <1>1, <1>2, PoolsStart, PTL DEF Spec

\* AllocIsTightest: an allocation takes an element of the smallest size that fits, after any
\* pools were added, disabled and released; for any kinds of pools and any requests.
THEOREM AllocationsAreTightest == Spec => AllocIsTightest
<1>1. PlainInv /\ CountingInv /\ [Next]_vars
        => [/\ Runs("pool") => Properties!TakesTightest
            /\ Runs("counted") => Counting!TakesTightest]_vars
  BY PoolsStep
<1>2. PlainInv /\ CountingInv /\ [Next]_vars => (PlainInv /\ CountingInv)'
  BY PoolsStep
<1> QED BY <1>1, <1>2, PoolsStart, PTL DEF Spec, AllocIsTightest
=============================================================================
