----------------------------- MODULE Arguments -----------------------------
(***************************************************************************)
(* The command line of acp-inspector-cli, read by hand one argument at a   *)
(* time (crates/cli/src/args.rs), and what `main` does with what it says   *)
(* (crates/cli/src/main.rs): the prompts are read, and an agent is run.    *)
(*                                                                         *)
(* An argument is [text, name, inline]: `name` is "" where it is no flag,  *)
(* and `inline` what stands after its `=`, None without one.               *)
(***************************************************************************)
EXTENDS Naturals, Sequences, FiniteSets

CONSTANTS
  Words,          \* the arguments there may be
  Readable,       \* the --prompt-file names that can be read
  MaxWords        \* bound: arguments on one line

None == "none"
Stdin == "-"
Switches == {"--json", "--clear-env"}
Valued == {"--cwd", "--env", "--unset", "--prompt", "--prompt-file", "--permission",
           "--timeout", "--export"}

VARIABLES
  line,       \* the arguments read
  reading,    \* first, run, value, dashed, args, inspect, positional or over
  awaiting,   \* the flag whose value is the next argument
  run,        \* what the options said
  command, path, args,
  verdict,    \* None, help, version, run, inspect or usage
  texts,      \* the prompts' texts as read
  drained,    \* how often stdin was read to its end
  does        \* reading, started, inspected, told or refused

asked == <<run, command, path, args>>
ran == <<texts, drained, does>>
vars == <<line, reading, awaiting, asked, verdict, ran>>

Start == [cwd |-> None, env |-> <<>>, unset |-> <<>>, clear |-> FALSE, prompts |-> <<>>,
          permission |-> "ask", timeout |-> None, export |-> None, json |-> FALSE]

TypeOK ==
  /\ line \in Seq(Words) /\ Len(line) <= MaxWords
  /\ reading \in {"first", "run", "value", "dashed", "args", "inspect", "positional", "over"}
  /\ (awaiting # None) = (reading = "value")
  /\ verdict \in {None, "help", "version", "run", "inspect", "usage"}
  /\ (verdict # None) = (reading = "over")
  /\ drained \in Nat /\ does \in {"reading", "started", "inspected", "told", "refused"}

Init ==
  /\ line = <<>> /\ reading = "first" /\ awaiting = None
  /\ run = Start /\ command = None /\ path = None /\ args = <<>> /\ verdict = None
  /\ texts = <<>> /\ drained = 0 /\ does = "reading"

IsFlag(w) == w.name # ""
Reads(w) == Len(line) < MaxWords /\ line' = Append(line, w)

Says(v) == reading' = "over" /\ verdict' = v /\ awaiting' = None
Goes(where) == reading' = where /\ awaiting' = None /\ UNCHANGED verdict

(***************************************************************************)
(* The options of a run.  A value is what it has to be, or the line is not *)
(* one.                                                                    *)
(***************************************************************************)
Pairs == {"A=1", "A=2"}
Seconds == {"2", "3"}
Policies == {"ask", "allow", "reject"}
NotText == {"bytes"}

Fits(name, v) ==
  CASE name = "--env" -> v \in Pairs
    [] name = "--unset" -> v \notin NotText \cup Pairs \cup {"", "=1"}
    [] name = "--permission" -> v \in Policies
    [] name = "--timeout" -> v \in Seconds
    [] name = "--prompt" -> v \notin NotText
    [] OTHER -> TRUE

\* What an option adds to the run: those that repeat in order, the others over
\* what was there.
Sets(r, name, v) ==
  CASE name = "--cwd" -> [r EXCEPT !.cwd = v]
    [] name = "--env" -> [r EXCEPT !.env = Append(@, v)]
    [] name = "--unset" -> [r EXCEPT !.unset = Append(@, v)]
    [] name = "--prompt" -> [r EXCEPT !.prompts = Append(@, [file |-> FALSE, of |-> v])]
    [] name = "--prompt-file" -> [r EXCEPT !.prompts = Append(@, [file |-> TRUE, of |-> v])]
    [] name = "--permission" -> [r EXCEPT !.permission = v]
    [] name = "--timeout" -> [r EXCEPT !.timeout = v]
    [] name = "--export" -> [r EXCEPT !.export = v]

Takes(name, v) ==
  IF Fits(name, v)
  THEN run' = Sets(run, name, v) /\ Goes("run")
  ELSE Says("usage") /\ UNCHANGED run

(***************************************************************************)
(* Reading.                                                                *)
(***************************************************************************)
Subcommand(w) ==
  /\ reading = "first" /\ Reads(w)
  /\ CASE w.text \in {"-h", "--help", "help"} -> Says("help")
       [] w.text \in {"-V", "--version"} -> Says("version")
       [] w.text \in {"run", "inspect"} -> Goes(w.text)
       [] OTHER -> Says("usage")
  /\ UNCHANGED <<asked, ran>>

\* `--`, or the first argument that is no flag: the rest is the agent's.
Dashes(w) ==
  /\ reading = "run" /\ w.text = "--" /\ Reads(w) /\ Goes("dashed") /\ UNCHANGED <<asked, ran>>

Command(w) ==
  /\ reading = "dashed" \/ (reading = "run" /\ w.text # "--" /\ ~IsFlag(w))
  /\ Reads(w) /\ command' = w.text /\ Goes("args") /\ UNCHANGED <<run, path, args, ran>>

Argument(w) ==
  /\ reading = "args" /\ Reads(w) /\ args' = Append(args, w.text)
  /\ UNCHANGED <<reading, awaiting, run, command, path, verdict, ran>>

Option(w) ==
  /\ reading = "run" /\ w.text # "--" /\ IsFlag(w) /\ Reads(w)
  /\ UNCHANGED <<command, path, args, ran>>
  /\ \/ /\ w.name \in {"-h", "--help"} /\ Says("help") /\ UNCHANGED run
     \/ /\ w.name \in Switches
        /\ IF w.inline # None THEN Says("usage") /\ UNCHANGED run
           ELSE /\ run' = IF w.name = "--json" THEN [run EXCEPT !.json = TRUE]
                          ELSE [run EXCEPT !.clear = TRUE]
                /\ Goes("run")
     \/ /\ w.name \in Valued
        /\ IF w.inline # None THEN Takes(w.name, w.inline)
           ELSE reading' = "value" /\ awaiting' = w.name /\ UNCHANGED <<run, verdict>>
     \/ /\ w.name \notin Switches \cup Valued \cup {"-h", "--help"} /\ Says("usage")
        /\ UNCHANGED run

\* The next argument, whatever it looks like.
Value(w) ==
  /\ reading = "value" /\ Reads(w) /\ Takes(awaiting, w.text)
  /\ UNCHANGED <<command, path, args, ran>>

Inspects(w) ==
  /\ reading \in {"inspect", "positional"} /\ Reads(w)
  /\ UNCHANGED <<command, args, ran>>
  /\ IF reading = "inspect" /\ (w.text = "--" \/ IsFlag(w))
     THEN /\ UNCHANGED path
          /\ IF w.text = "--json"
             THEN run' = [run EXCEPT !.json = TRUE] /\ Goes("inspect")
             ELSE /\ UNCHANGED run
                  /\ CASE w.text = "--" -> Goes("positional")
                       [] w.name \in {"-h", "--help"} -> Says("help")
                       [] OTHER -> Says("usage")
     ELSE /\ UNCHANGED run
          /\ IF path = None THEN path' = w.text /\ Goes(reading)
             ELSE Says("usage") /\ UNCHANGED path

\* The line ends: stdin is read once at most, and there is a command.
FromStdin(prompts) == {i \in DOMAIN prompts : prompts[i].file /\ prompts[i].of = Stdin}
Runnable == Cardinality(FromStdin(run.prompts)) <= 1 /\ command \notin {None, ""}

End ==
  /\ reading # "over"
  /\ Says(CASE reading \in {"run", "dashed", "args"} -> IF Runnable THEN "run" ELSE "usage"
            [] reading \in {"inspect", "positional"} -> IF path # None THEN "inspect" ELSE "usage"
            [] OTHER -> "usage")
  /\ UNCHANGED <<line, asked, ran>>

(***************************************************************************)
(* What is done about it: the prompts are read in order before an agent is *)
(* run for nothing.                                                        *)
(***************************************************************************)
Told ==
  /\ does = "reading" /\ verdict \in {"help", "version", "usage", "inspect"}
  /\ does' = CASE verdict = "usage" -> "refused" [] verdict = "inspect" -> "inspected"
               [] OTHER -> "told"
  /\ UNCHANGED <<line, reading, awaiting, asked, verdict, texts, drained>>

NextPrompt == run.prompts[Len(texts) + 1]

ReadPrompt ==
  /\ does = "reading" /\ verdict = "run" /\ Len(texts) < Len(run.prompts)
  /\ UNCHANGED <<line, reading, awaiting, asked, verdict>>
  /\ IF NextPrompt.file /\ NextPrompt.of # Stdin /\ NextPrompt.of \notin Readable
     THEN does' = "refused" /\ UNCHANGED <<texts, drained>>
     ELSE /\ texts' = Append(texts, IF NextPrompt.file /\ NextPrompt.of = Stdin /\ drained > 0
                                    THEN "" ELSE NextPrompt.of)
          /\ drained' = IF NextPrompt.file /\ NextPrompt.of = Stdin THEN drained + 1 ELSE drained
          /\ UNCHANGED does

\* stdin may be unreadable, and the runtime may not start.
Unstartable ==
  /\ does = "reading" /\ verdict = "run" /\ does' = "refused"
  /\ \/ Len(texts) < Len(run.prompts) /\ NextPrompt.file /\ NextPrompt.of = Stdin
     \/ Len(texts) = Len(run.prompts)
  /\ UNCHANGED <<line, reading, awaiting, asked, verdict, texts, drained>>

Starts ==
  /\ does = "reading" /\ verdict = "run" /\ Len(texts) = Len(run.prompts) /\ does' = "started"
  /\ UNCHANGED <<line, reading, awaiting, asked, verdict, texts, drained>>

Next ==
  \/ \E w \in Words :
       \/ Subcommand(w) \/ Dashes(w) \/ Command(w) \/ Argument(w)
       \/ Option(w) \/ Value(w) \/ Inspects(w)
  \/ End \/ Told \/ ReadPrompt \/ Unstartable \/ Starts

Spec == Init /\ [][Next]_vars

(***************************************************************************)
(* The reference: a line, read as a whole.  Opens[i]: the i-th argument is *)
(* an option or the end of them, not a value.                              *)
(***************************************************************************)
Opens[i \in Nat] ==
  \/ i = 2
  \/ i > 2 /\ Opens[i - 1] /\ ~(line[i - 1].name \in Valued /\ line[i - 1].inline = None)
  \/ i > 3 /\ ~Opens[i - 1] /\ Opens[i - 2]

Ends(i) == line[i].text = "--" \/ ~IsFlag(line[i])
Last == CHOOSE i \in 2..Len(line) : Opens[i] /\ Ends(i) /\ \A j \in 2..(i - 1) : ~(Opens[j] /\ Ends(j))
At == IF line[Last].text = "--" THEN Last + 1 ELSE Last

Given(names) == {i \in 2..(Last - 1) : Opens[i] /\ line[i].name \in names}
ValueAt(i) == IF line[i].inline # None THEN line[i].inline ELSE line[i + 1].text
InOrder(S) == [k \in 1..Cardinality(S) |-> CHOOSE i \in S : Cardinality({j \in S : j <= i}) = k]
Listed(name) == LET at == InOrder(Given({name})) IN [k \in DOMAIN at |-> ValueAt(at[k])]
LastOf(name, default) ==
  IF Given({name}) = {} THEN default
  ELSE ValueAt(CHOOSE i \in Given({name}) : \A j \in Given({name}) : j <= i)
-----------------------------------------------------------------------------
\* A run is the line as written: everything after the command is the agent's, in
\* order, and each option before it says what it says, repeated ones in order and
\* the last of the others.
RunIsTheLine ==
  verdict = "run" =>
    /\ command = line[At].text
    /\ args = [k \in 1..(Len(line) - At) |-> line[At + k].text]
    /\ run.env = Listed("--env") /\ run.unset = Listed("--unset")
    /\ [k \in DOMAIN run.prompts |-> run.prompts[k].of] =
         LET at == InOrder(Given({"--prompt", "--prompt-file"}))
         IN [k \in DOMAIN at |-> ValueAt(at[k])]
    /\ run.cwd = LastOf("--cwd", None) /\ run.timeout = LastOf("--timeout", None)
    /\ run.permission = LastOf("--permission", "ask") /\ run.export = LastOf("--export", None)
    /\ run.json = (Given({"--json"}) # {}) /\ run.clear = (Given({"--clear-env"}) # {})

\* No agent is run unless the line said to and every prompt was read as given, in
\* order and stdin once; a line that was wrong read nothing.
NothingRunsOnAMistake ==
  /\ does = "started" =>
       verdict = "run" /\ texts = [k \in DOMAIN run.prompts |-> run.prompts[k].of]
  /\ verdict # "run" => texts = <<>> /\ drained = 0
  /\ drained <= 1

LineIsHeard == TypeOK /\ RunIsTheLine /\ NothingRunsOnAMistake
=============================================================================
