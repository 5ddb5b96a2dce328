------------------------------- MODULE Subjects -------------------------------
(***************************************************************************)
(* What is claimed of the functions that keep no state.  A state is a       *)
(* subject: the name of a function and an input of it.  MCFunctions takes    *)
(* the inputs from small sets, FunctionProofs takes any.                     *)
(***************************************************************************)
EXTENDS Command, BundleFile, Transport, Report, StatsTables, Noise

VARIABLE subject

Is(name) == subject.name = name

\* A command that was cut short, by its limit, its time or its own failure, is
\* told from a whole one, and it is always cut short in time: nothing that still
\* holds its pipe survives it (common.py, command; Command, TellsAll, IsBounded).
CutsAreTold == Is("command") => TellsAll(subject.input) /\ IsBounded(subject.input)

\* What is stored in a shorter form is read as it was collected, and a shorter
\* form that nobody wrote is rejected or means one thing: tables of samples,
\* Docker fields, summaries of journal rows and of exec events (StatsTables,
\* TableRestores and NeverGuesses; DockerFields, FieldsRestore and
\* ExecStaysInRange; Noise, JournalKeeps and ExecKeeps).
PackingIsExact ==
  /\ Is("samples") => TableRestores(subject.input)
  /\ Is("table") => NeverGuesses(subject.input)
  /\ Is("record") => FieldsRestore(subject.input)
  /\ Is("exec") => ExecStaysInRange(subject.input)
  /\ Is("journal") => JournalKeeps(subject.input)
  /\ Is("events") => ExecKeeps(subject.input)

\* Evidence that went into a bundle comes out of it, or the bundle says that it
\* did not, or a member is larger than the reader takes, and nothing else makes it
\* refuse what a writer published; restore() then refuses the mirror, too, and
\* brings nothing.  Said of the writer's archive, of any archive that the reader
\* accepts, of the text mirror, and of a restoration that is interrupted or repeated
\* (BundleFile, PublishedIsRead and AcceptedIsListed; Transport, MirrorRestores
\* and RestoreIsSafe).
BundlesRestore ==
  /\ Is("sources") => PublishedIsRead(subject.input)
  /\ Is("archive") => AcceptedIsListed(subject.input)
  /\ Is("upload") => MirrorRestores(subject.input.source, subject.input.marker)
  /\ Is("restoration") => RestoreIsSafe(subject.input)

\* A report contains no rate that the host never had and counts no event twice,
\* over reboots, clocks that jump, counters that restart and windows that
\* overlap (Report, RatesAreReal and FindingsCountOnce).
ReportInventsNothing ==
  /\ Is("host") => RatesAreReal(subject.input)
  /\ Is("evidence") => FindingsCountOnce(subject.input)
==============================================================================
