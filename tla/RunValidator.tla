----------------------------- MODULE RunValidator -----------------------------
(***************************************************************************)
(* Validation of a run that has been written: validate() on the client     *)
(* (writing/validator.py), the server's endpoint (routers/validator.py),   *)
(* and BlueskyRunV3.validate() that prefers the endpoint.  Both compare    *)
(* the structure stored for each external data source with the one an      *)
(* adapter reads from its files, repair it, and leave notes in the run.    *)
(*                                                                         *)
(* One call runs at a time; files may appear during a call.  The adapters, *)
(* the files and the requests are external.                                *)
(***************************************************************************)
EXTENDS Integers, FiniteSets, SequencesExt, Utilities

CONSTANTS
  Keys,      \* the external data keys in their order
  Cases,     \* for each key, a set of [stored, file, multiplier], 0 for no frame_per_point
  Ignores,   \* values of ignore_errors, sets of kinds of errors
  MaxCalls,  \* bound on the number of calls
  MaxFaults  \* bound on the number of requests and adapters that fail

\* data_type is [names, types], without names if simple and with one type for each
\* name if structured; types are numbered by promotion.  dims is how many
\* dimensions have names, and layout the property "chunks", <<>> if there is none.
DataType(t) == Len(t.types) = IF t.names = <<>> THEN 1 ELSE Len(t.names)
Structure(s) ==
  /\ s \in [data_type : [names : Seq(STRING), types : Seq(Nat)], shape : Seq(Nat),
            chunks : Seq(Seq(Nat)), dims : Nat, layout : Seq(Seq(Nat))]
  /\ DataType(s.data_type) /\ Len(s.shape) = Len(s.chunks) /\ s.shape # <<>>

ASSUME KeysAssumption == Keys \in Seq(DOMAIN Cases)
ASSUME CasesAssumption ==
  \A k \in ToSet(Keys) : \A c \in Cases[k] : Structure(c.stored) /\ Structure(c.file) /\ c.multiplier \in Nat
ASSUME IgnoresAssumption == Ignores # {} /\ Ignores \subseteq SUBSET {"asset", "structure", "reading", "other"}

VARIABLES
  case,      \* what is given for each key
  present,   \* keys whose files are there
  structure, \* server: the structure of each key
  notes,     \* server: the run's notes
  options,   \* of the call
  step,      \* "idle", or what the call does with the current key, or "notes"
  at,        \* position of the current key
  found,     \* notes of this call
  errored,   \* keys that this call could not read
  result,    \* of the last call: "none", "true", "false", "raised"
  refused,   \* history: the request for its notes failed, and it returned
  calls, faults,
  before,    \* history: what was when the call began
  settled,   \* history: "local" or "remote" if the last call left nothing to do, or "no"
  noted      \* history: all calls were local, wrote notes, and none raised

given == <<case, options>>
served == <<structure, notes>>
counted == <<calls, faults>>
Now == [structure |-> structure, notes |-> notes, present |-> present, faults |-> faults, settled |-> settled]
vars == <<given, present, served, step, at, found, errored, result, refused, counted, before, settled, noted>>

Options == [remote : BOOLEAN, fix : BOOLEAN, read : BOOLEAN, raise : BOOLEAN,
            ignored : Ignores, write : BOOLEAN]

Init ==
  /\ case \in {f \in [ToSet(Keys) -> UNION {Cases[k] : k \in ToSet(Keys)}] : \A k \in ToSet(Keys) : f[k] \in Cases[k]}
  /\ present \in SUBSET ToSet(Keys)
  /\ structure = [k \in ToSet(Keys) |-> case[k].stored] /\ notes = <<>>
  /\ options = CHOOSE o \in Options : TRUE
  /\ step = "idle" /\ at = 1 /\ found = <<>> /\ errored = {} /\ result = "none" /\ refused = FALSE
  /\ calls = 0 /\ faults = 0 /\ settled = "no" /\ noted = TRUE
  /\ before = Now

-----------------------------------------------------------------------------
(***************************************************************************)
(* validate_data_source()                                                  *)
(***************************************************************************)
Structured(type) == type.names # <<>>

\* The number of fields differs: not to be repaired.
FieldsDiffer(s, file) ==
  /\ Structured(s.data_type) /\ s.data_type # file.data_type
  /\ Len(s.data_type.names) # IF Structured(file.data_type) THEN Len(file.data_type.names)
                              ELSE Last(file.shape)

\* A row of values of one type is read where a structure of them is stored.
OneColumn(s, file) == Structured(s.data_type) /\ ~Structured(file.data_type)

\* Names come from what is stored, types from the file.
TrueType(s, file) ==
  CASE s.data_type.names = file.data_type.names -> file.data_type
    [] s.data_type.names # file.data_type.names /\ OneColumn(s, file) ->
         [s.data_type EXCEPT !.types = [i \in DOMAIN @ |-> file.data_type.types[1]]]
    [] s.data_type.names # file.data_type.names /\ ~OneColumn(s, file) ->
         IF Structured(s.data_type) THEN [s.data_type EXCEPT !.types = file.data_type.types]
         ELSE [names |-> <<>>, types |-> <<Max(ToSet(file.data_type.types))>>]

Divides(m, shape) == m # 0 /\ shape[1] % m = 0

\* Mutant: what is stored is divided, again with every repetition.
MultipliedStored(s, file, m) ==
  IF Divides(m, s.shape)
  THEN [shape  |-> <<s.shape[1] \div m, m>> \o Tail(s.shape),
        chunks |-> <<list_summands(s.shape[1] \div m, file.chunks[1][1], 1), <<m>>>> \o Tail(s.chunks),
        layout |-> file.chunks]
  ELSE [shape |-> file.shape, chunks |-> file.chunks, layout |-> s.layout]

\* The frames of the file by events, if the multiplier divides them.
Multiplied(s, file, m) ==
  CASE Divides(m, file.shape) ->
         [shape  |-> <<file.shape[1] \div m, m>> \o Tail(file.shape),
          chunks |-> <<list_summands(file.shape[1] \div m, file.chunks[1][1], 1), <<m>>>> \o Tail(file.chunks),
          layout |-> file.chunks]
    [] ~Divides(m, file.shape) /\ OneColumn(s, file) ->
         [shape |-> Front(file.shape) \o <<1>>, chunks |-> Front(file.chunks) \o << <<1>> >>, layout |-> s.layout]
    [] OTHER -> [shape |-> file.shape, chunks |-> file.chunks, layout |-> s.layout]

\* Names for the new dimensions, after a first one for time, or for as many as there are.
NamedDims(dims, n) ==
  IF dims # 0 /\ dims < n THEN 1 + dims + Cardinality((dims + 1)..(n - 1)) ELSE IF dims > n THEN n ELSE dims

Repaired(s, file, m) ==
  LET true == Multiplied(s, file, m)
  IN [data_type |-> TrueType(s, file), shape |-> true.shape, chunks |-> true.chunks,
      dims |-> NamedDims(s.dims, Len(true.shape)), layout |-> true.layout]

\* What is fixed, with what it was and is.  Types that cannot be equal, because the
\* names are not, are fixed each time.
Fixes(s, file, m) ==
  LET to == Repaired(s, file, m)
      First(chunks) == [d \in DOMAIN chunks |-> chunks[d][1]]
  IN (IF s.data_type # file.data_type THEN << <<"data type", s.data_type, to.data_type>> >> ELSE <<>>)
  \o (IF s.shape # to.shape THEN << <<"shape", s.shape, to.shape>> >> ELSE <<>>)
  \o (IF s.chunks # to.chunks THEN << <<"chunks", First(s.chunks), First(to.chunks)>> >> ELSE <<>>)
  \o (IF s.dims # to.dims THEN << <<"dims", s.dims, to.dims>> >> ELSE <<>>)

Key == Keys[at]
Fix == Fixes(structure[Key], case[Key].file, case[Key].multiplier)
Fixed == Repaired(structure[Key], case[Key].file, case[Key].multiplier)
FixNotes == [i \in DOMAIN Fix |-> <<Key, Fix[i][1], Fix[i][2], Fix[i][3]>>]

\* The exceptions of validate_data_source().
Asset == Key \notin present
Mismatch ==
  /\ Key \in present
  /\ Fix # <<>>
  /\ options.fix => FieldsDiffer(structure[Key], case[Key].file)
Valid == Key \in present /\ ~Mismatch

-----------------------------------------------------------------------------
(***************************************************************************)
(* Calls.  A call is remote if the server has the endpoint; otherwise, and *)
(* when validate() is called, it is local.                                 *)
(***************************************************************************)
\* A run without external data has nothing to compare.
FirstStep == IF Keys = <<>> THEN "notes" ELSE "structure"

Call ==
  /\ step = "idle" /\ calls < MaxCalls
  /\ calls' = calls + 1
  /\ options' \in Options
  /\ step' = FirstStep /\ at' = 1 /\ found' = <<>> /\ errored' = {}
  /\ result' = "none" /\ refused' = FALSE
  /\ before' = Now
  /\ UNCHANGED <<case, present, served, faults, settled, noted>>

FileAppears ==
  /\ \E k \in ToSet(Keys) \ present : present' = present \cup {k}
  /\ settled' = "no"
  /\ UNCHANGED <<given, served, step, at, found, errored, result, refused, counted, before, noted>>

Where == IF options.remote THEN "remote" ELSE "local"

\* An adapter or a request fails, all its attempts included.
Fault == faults < MaxFaults /\ faults' = faults + 1
NoFault == UNCHANGED faults

\* The order of the steps: a client reads a key after comparing its structure, the
\* endpoint when it has compared all.
Proceed ==
  /\ IF step = "structure" /\ options.read /\ ~options.remote
     THEN step' = "reading" /\ UNCHANGED at
     ELSE IF at < Len(Keys)
     THEN step' = (IF options.remote THEN step ELSE "structure") /\ at' = at + 1
     ELSE IF step = "structure" /\ options.read /\ options.remote
     THEN step' = "reading" /\ at' = 1
     ELSE step' = "notes" /\ UNCHANGED at
  /\ UNCHANGED <<given, present, notes, result, refused, calls, before, settled, noted>>

Quiet == before.present = present /\ before.faults = faults'

Returns(outcome) ==
  /\ step' = "idle" /\ result' = outcome
  /\ settled' = IF /\ outcome \in (IF options.remote THEN {"true"} ELSE {"true", "false"})
                   /\ options.fix /\ options.write /\ Quiet
                THEN Where ELSE "no"
  /\ noted' = (noted /\ ~options.remote /\ options.write /\ outcome # "raised")
  /\ UNCHANGED <<given, present, at, found, errored, calls, before>>

Ends(outcome) == Returns(outcome) /\ refused' = FALSE

\* Nothing is noted; what was repaired before stays.
Raises == Ends("raised") /\ UNCHANGED notes

Ignored(kind) == kind \in options.ignored

-----------------------------------------------------------------------------
(***************************************************************************)
(* validate()                                                              *)
(***************************************************************************)
\* Mutant: ignored errors are not noted.
LocalErrorIgnored(kind) ==
  \/ /\ Ignored(kind) \/ ~options.raise
     /\ found' = IF Ignored(kind) THEN found ELSE Append(found, <<Key, "failed", kind>>)
     /\ UNCHANGED errored
     /\ Proceed
  \/ ~Ignored(kind) /\ options.raise /\ Raises

\* An error that is not ignored raises, if that is asked for; it is noted otherwise.
LocalError(kind) ==
  \/ /\ Ignored(kind) \/ ~options.raise
     /\ found' = Append(found, <<Key, "failed", kind>>)
     /\ UNCHANGED errored
     /\ Proceed
  \/ ~Ignored(kind) /\ options.raise /\ Raises

\* The structure is stored if something was fixed.
LocalStructure ==
  /\ ~options.remote /\ step = "structure" /\ NoFault
  /\ \/ /\ Valid
        /\ structure' = [structure EXCEPT ![Key] = IF Fix = <<>> THEN @ ELSE Fixed]
        /\ found' = found \o FixNotes
        /\ UNCHANGED errored
        /\ Proceed
     \/ Asset /\ LocalError("asset") /\ UNCHANGED structure
     \/ Mismatch /\ LocalError("structure") /\ UNCHANGED structure

\* The structure whose PUT fails is stored all the same or not.
LocalStructureFails ==
  /\ ~options.remote /\ step = "structure" /\ Key \in present /\ Fault
  /\ \/ UNCHANGED structure
     \/ Valid /\ Fix # <<>> /\ structure' = [structure EXCEPT ![Key] = Fixed]
  /\ LocalError("other")

LocalReading ==
  /\ ~options.remote /\ step = "reading" /\ NoFault
  /\ \/ Key \in present /\ UNCHANGED errored /\ Proceed
     \/ /\ Ignored("reading") \/ ~options.raise
        /\ errored' = errored \cup {Key}
        /\ Proceed
     \/ ~Ignored("reading") /\ options.raise /\ Raises
  /\ UNCHANGED <<structure, found>>

\* Mutant: notes are only appended.
MergedNot(old, new) == old \o new

\* dict.fromkeys(existing_notes + notes)
Merged(old, new) ==
  LET all == old \o new
      kept[i \in 0..Len(all)] ==
        IF i = 0 THEN <<>>
        ELSE IF \E j \in DOMAIN kept[i - 1] : kept[i - 1][j] = all[i] THEN kept[i - 1]
        ELSE Append(kept[i - 1], all[i])
  IN kept[Len(all)]

\* Mutant: a call that could not read a key writes no notes.
LocalNotesIfRead ==
  /\ ~options.remote /\ step = "notes" /\ NoFault
  /\ notes' = IF options.write /\ errored = {} THEN Merged(notes, found) ELSE notes
  /\ UNCHANGED structure
  /\ Ends(IF errored = {} THEN "true" ELSE "false")

LocalNotes ==
  /\ ~options.remote /\ step = "notes" /\ NoFault
  /\ notes' = IF options.write THEN Merged(notes, found) ELSE notes
  /\ UNCHANGED structure
  /\ Ends(IF errored = {} THEN "true" ELSE "false")

\* The request that updates the notes fails; they are stored all the same or not.
LocalNotesFail ==
  /\ ~options.remote /\ step = "notes" /\ Fault
  /\ options.write /\ Merged(notes, found) # notes
  /\ notes' \in {notes, Merged(notes, found)}
  /\ UNCHANGED structure
  /\ Ends("raised")

-----------------------------------------------------------------------------
(***************************************************************************)
(* The endpoint, and BlueskyRunV3.validate() that has requested it         *)
(***************************************************************************)
\* The response says that the run is not valid, or has the status 500; the notes in
\* it, if any, are not written.
RemoteInvalid == Ends(IF options.raise THEN "raised" ELSE "false") /\ UNCHANGED <<notes>>

RemoteError(kind) ==
  \/ /\ Ignored(kind)
     /\ found' = Append(found, <<Key, "ignored", kind>>)
     /\ UNCHANGED errored
     /\ Proceed
  \/ ~Ignored(kind) /\ RemoteInvalid

\* The data source is stored if it has changed, its layout included.
RemoteStructure ==
  /\ options.remote /\ step = "structure" /\ NoFault
  /\ \/ /\ Valid
        /\ structure' = [structure EXCEPT ![Key] = Fixed]
        /\ found' = found \o FixNotes
        /\ UNCHANGED errored
        /\ Proceed
     \/ Asset /\ RemoteError("asset") /\ UNCHANGED structure
     \/ Mismatch /\ RemoteInvalid /\ UNCHANGED structure

\* The adapter raises, or what stores the data source, which nothing catches.
RemoteStructureFails ==
  /\ options.remote /\ step = "structure" /\ Key \in present /\ Fault
  /\ \/ RemoteError("other") /\ UNCHANGED structure
     \/ Valid /\ RemoteInvalid /\ UNCHANGED structure

RemoteReading ==
  /\ options.remote /\ step = "reading" /\ NoFault
  /\ \/ Key \in present /\ UNCHANGED <<found, errored>> /\ Proceed
     \/ RemoteError("reading")
  /\ UNCHANGED structure

\* A request that gets no response is repeated, and the endpoint begins again.
RemoteRetried ==
  /\ options.remote /\ step # "idle" /\ Fault
  /\ step' = FirstStep /\ at' = 1 /\ found' = <<>>
  /\ UNCHANGED <<given, present, served, errored, result, refused, calls, before, settled, noted>>

\* No attempt gets a response.
RemoteFails ==
  /\ options.remote /\ step # "idle" /\ Fault
  /\ UNCHANGED structure
  /\ Raises

\* Notes are appended to those there are, without a comparison.
RemoteNotes ==
  /\ options.remote /\ step = "notes" /\ NoFault
  /\ notes' = IF options.write THEN notes \o found ELSE notes
  /\ UNCHANGED structure
  /\ Ends("true")

\* The status of its response, if there is one, is taken for that of the validation:
\* the error is swallowed unless errors are to be raised.
RemoteNotesFail ==
  /\ options.remote /\ step = "notes" /\ Fault
  /\ options.write /\ found # <<>>
  /\ notes' \in {notes, notes \o found}
  /\ UNCHANGED structure
  /\ \/ Ends("raised")
     \/ ~options.raise /\ Returns("true") /\ refused' = TRUE

Local == LocalStructure \/ LocalStructureFails \/ LocalReading \/ LocalNotes \/ LocalNotesFail

Remote ==
  \/ RemoteStructure \/ RemoteStructureFails \/ RemoteReading
  \/ RemoteRetried \/ RemoteFails \/ RemoteNotes \/ RemoteNotesFail

Next == Call \/ FileAppears \/ Local \/ Remote

Spec == Init /\ [][Next]_vars

-----------------------------------------------------------------------------
(***************************************************************************)
(* Properties                                                              *)
(***************************************************************************)
Agrees(k) ==
  LET to == Repaired(structure[k], case[k].file, case[k].multiplier)
  IN to = [structure[k] EXCEPT !.layout = to.layout]

Names(written, k, kinds) == \E i \in DOMAIN written : written[i][1] = k /\ written[i][2] \in kinds
Noted(k, kinds) == Names(notes, k, kinds)

\* A call that returned True has left every data source as its files are, with a
\* first dimension of events if their number divides the frames, unless a note
\* says that it could not; whatever failed, was ignored or was repeated.  Only if
\* the request for the notes of a remote call was refused, and errors are not to
\* be raised, no more than the warnings of this call say so.
TrueIsValidOrNoted ==
  (result = "true" /\ options.write) =>
    \A k \in ToSet(Keys) :
      \/ Agrees(k) \/ Noted(k, {"failed", "ignored"})
      \/ refused /\ options.remote /\ ~options.raise /\ Names(found, k, {"failed", "ignored"})

\* "so repeat validation is idempotent" (writing/validator.py:149): a call after one
\* that repaired and noted what there was to changes no structure, and no notes
\* but for those of ignored errors in a remote call (they are noted again), and
\* of structured data types whose names are not the file's (fixed again).
RepeatChangesNothing ==
  (result # "none" /\ before.settled = Where /\ before.present = present /\ before.faults = faults) =>
    /\ structure = before.structure
    /\ (options.fix /\ \A k \in ToSet(Keys) : structure[k].data_type.names = case[k].file.data_type.names) =>
         /\ IsPrefix(before.notes, notes)
         /\ \A i \in DOMAIN notes \ DOMAIN before.notes : notes[i][2] = "ignored"

\* As long as validation is local, writes notes and does not raise, no structure
\* differs from what the writer stored without a note, even if the request that
\* stored it got no response.
RepairsAreNoted ==
  (step = "idle" /\ noted) =>
    \A k \in ToSet(Keys) : structure[k] # case[k].stored => Noted(k, {"failed", "data type", "shape", "chunks", "dims"})
=============================================================================
