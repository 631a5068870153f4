---------------------------- MODULE AgentProofs -----------------------------
(****************************************************************************)
(* Proofs about the agent's process, for any connections, datagrams, input  *)
(* lines, request bodies and options: its shutdown waits for everything     *)
(* that still appends, so that a clean exit leaves no record in memory, and *)
(* an interrupted migration of the legacy batch file delivers the batch all *)
(* the same. IndInv is the inductive invariant; its parts say what main has *)
(* already waited for at every place of its code. The last part is about    *)
(* what becomes of a stream, from its socket to the engine's log: StreamInv *)
(* is the invariant, beside IndInv, of the loops that read and append.      *)
(****************************************************************************)
EXTENDS Agent, SequenceTheorems, FiniteSetTheorems, WellFoundedInduction, TLAPS

-----------------------------------------------------------------------------
(* A set of naturals has a least element: the induction the proofs about    *)
(* lines and ranks rest on.                                                 *)
LEMMA Least ==
  ASSUME NEW T, T \subseteq Nat, T # {}
  PROVE  \E x \in T : \A y \in T : x <= y
<1> DEFINE R == OpToRel(<, Nat)
<1>1. \A x, y \in Nat : <<x, y>> \in R <=> x < y
  BY DEF OpToRel
<1>2. IsWellFoundedOn(R, Nat)
  BY NatLessThanWellFounded
<1> HIDE DEF R
<1>3. PICK x \in T : \A y \in T : ~ (<<y, x>> \in R)
  BY <1>2, WFMin
<1>4. \A y \in T : x <= y
  <2> TAKE y \in T
  <2>1. x \in Nat /\ y \in Nat
    OBVIOUS
  <2>2. ~ (y < x)
    BY <1>1, <1>3, <2>1
  <2> QED BY <2>1, <2>2
<1> QED BY <1>4

(* A set of positions of a sequence is finite.                              *)
LEMMA PartFinite ==
  ASSUME NEW m \in Nat, NEW S \in SUBSET (1..m)
  PROVE  IsFiniteSet(S) /\ Cardinality(S) \in Nat
<1>1. 1 \in Int /\ m \in Int
  OBVIOUS
<1>2. IsFiniteSet(1..m)
  BY ONLY <1>1, FS_Interval
<1>3. IsFiniteSet(S)
  BY ONLY <1>2, S \in SUBSET (1..m), FS_Subset
<1> QED BY <1>3, FS_CardinalityType

(* The n-th smallest position of a set is one of it, and n of them are up   *)
(* to it: by the least number with n positions up to it.                    *)
LEMMA NthIsMember ==
  ASSUME NEW m \in Nat, NEW S \in SUBSET (1..m), NEW n \in 1..Cardinality(S)
  PROVE  Nth(S, n) \in S /\ Cardinality({j \in S : j <= Nth(S, n)}) = n
<1> DEFINE upTo(i) == {j \in S : j <= i}
           T == {i \in Nat : Cardinality(upTo(i)) >= n}
<1>1. IsFiniteSet(S)
  BY PartFinite
<1> \A j \in S : j \in Nat /\ 1 <= j /\ j <= m
  OBVIOUS
<1>2. \A i \in Nat : IsFiniteSet(upTo(i)) /\ Cardinality(upTo(i)) \in Nat
  BY <1>1, FS_Subset, FS_CardinalityType
<1>3. upTo(m) = S
  OBVIOUS
<1>4. m \in T
  <2>1. Cardinality(S) \in Nat
    BY <1>1, FS_CardinalityType
  <2> QED BY <1>3, <2>1
<1>5. PICK x \in T : \A y \in T : x <= y
  BY <1>4, Least
<1>6. x # 0
  <2>1. upTo(0) = {}
    <3> \A j \in S : ~ (j <= 0)
      OBVIOUS
    <3> QED OBVIOUS
  <2>2. Cardinality(upTo(0)) = 0
    BY <2>1, FS_EmptySet
  <2>3. ~ (0 >= n)
    BY <1>1, FS_CardinalityType
  <2>4. 0 \notin T
    BY <2>2, <2>3
  <2> QED BY <2>4
<1>7. x \in Nat /\ x - 1 \in Nat /\ ~ (x <= x - 1)
  BY <1>6
<1>8. x - 1 \notin T
  BY <1>5, <1>7
<1>9. ~ (Cardinality(upTo(x - 1)) >= n) /\ Cardinality(upTo(x)) >= n
  BY <1>7, <1>8
<1>10. n \in Nat
  BY <1>1, FS_CardinalityType
<1>11. x \in S /\ Cardinality(upTo(x)) = n
  <2>1. CASE x \in S
    <3> \A j \in S : j <= x <=> j <= x - 1 \/ j = x
      BY <1>7
    <3>1. upTo(x) = upTo(x - 1) \cup {x} /\ x \notin upTo(x - 1)
      BY <1>7, <2>1
    <3>2. Cardinality(upTo(x)) = Cardinality(upTo(x - 1)) + 1
      BY <1>2, <1>7, <3>1, FS_AddElement
    <3>3. Cardinality(upTo(x - 1)) \in Nat
      BY <1>2, <1>7
    <3> QED BY <1>9, <1>10, <2>1, <3>2, <3>3
  <2>2. CASE x \notin S
    <3> \A j \in S : j <= x <=> j <= x - 1
      BY <1>7, <2>2
    <3>1. upTo(x) = upTo(x - 1)
      OBVIOUS
    <3> QED BY <1>9, <3>1
  <2> QED BY <2>1, <2>2
<1>12. \E i \in S : Cardinality({j \in S : j <= i}) = n
  BY <1>11
<1> QED BY <1>12 DEF Nth

(* The line ends of a buffer are positions in it,                           *)
LEMMA EndsProperties ==
  ASSUME NEW cells \in Text
  PROVE  /\ Ends(cells) \in SUBSET (1..Len(cells))
         /\ IsFiniteSet(Ends(cells)) /\ Cardinality(Ends(cells)) \in Nat
<1>1. Ends(cells) \in SUBSET (1..Len(cells)) /\ Len(cells) \in Nat
  BY DEF Ends, Text
<1> QED BY <1>1, PartFinite

(* ... finitely many,                                                       *)
LEMMA CountProperties ==
  ASSUME NEW cells \in Text, options \in Options
  PROVE  Count(cells) \in Nat /\ Count(cells) <= Cardinality(Ends(cells))
<1>1. options.max_lines \in Nat
  BY AgentAssumption
<1> QED BY <1>1, EndsProperties DEF Count

(* ... and increasing: the n-th line end is in the buffer, the 0-th before  *)
(* it.                                                                      *)
LEMMA LineEndProperties ==
  ASSUME NEW cells \in Text, options \in Options, NEW k \in 0..Count(cells)
  PROVE  LineEnd(cells, k) \in 0..Len(cells) /\ (k # 0 => LineEnd(cells, k) \in Ends(cells))
<1>1. Len(cells) \in Nat
  BY DEF Text
<1>2. Count(cells) \in Nat /\ Count(cells) <= Cardinality(Ends(cells))
      /\ Cardinality(Ends(cells)) \in Nat
  BY EndsProperties, CountProperties
<1>3. CASE k = 0
  BY <1>1, <1>3 DEF LineEnd
<1>4. CASE k # 0
  <2>1. k \in 1..Cardinality(Ends(cells))
    BY <1>2, <1>4
  <2>2. Nth(Ends(cells), k) \in Ends(cells)
    BY <1>1, <2>1, EndsProperties, NthIsMember
  <2>3. LineEnd(cells, k) \in Ends(cells)
    BY <1>4, <2>2 DEF LineEnd
  <2> QED BY <1>1, <2>3, EndsProperties
<1> QED BY <1>3, <1>4

(* Stripping a carriage return leaves a text.                               *)
LEMMA StrippedType ==
  ASSUME NEW line \in Text
  PROVE  Stripped(line) \in Text
<1>1. CASE line # <<>>
  <2>1. Len(line) \in Nat /\ Len(line) - 1 \in Int /\ \A i \in 1..Len(line) - 1 : line[i] \in Int
    BY DEF Text
  <2>2. Front(line) \in Text
    BY <2>1, SubSeqProperties DEF Front, Text
  <2> QED BY <2>2 DEF Stripped
<1>2. CASE line = <<>>
  BY <1>2 DEF Stripped
<1> QED BY <1>1, <1>2

(* A line of a buffer is a text,                                            *)
LEMMA LineType ==
  ASSUME NEW cells \in Text, NEW a \in 0..Len(cells), NEW b \in 0..Len(cells)
  PROVE  SubSeq(cells, a + 1, b - 1) \in Text /\ SubSeq(cells, a + 1, Len(cells)) \in Text
<1>1. Len(cells) \in Nat /\ a + 1 \in Int /\ b - 1 \in Int
  BY DEF Text
<1>2. \A i \in (a + 1)..(b - 1) : cells[i] \in Int
  BY <1>1 DEF Text
<1>3. \A i \in (a + 1)..Len(cells) : cells[i] \in Int
  BY <1>1 DEF Text
<1>4. SubSeq(cells, a + 1, b - 1) \in Seq(Int)
  BY <1>1, <1>2, SubSeqProperties DEF Text
<1>5. SubSeq(cells, a + 1, Len(cells)) \in Seq(Int)
  BY <1>1, <1>3, SubSeqProperties
<1> QED BY <1>4, <1>5 DEF Text

(* ... the complete lines of a buffer are texts,                            *)
LEMMA FirstLinesType ==
  ASSUME NEW cells \in Text, options \in Options
  PROVE  FirstLines(cells) \in Seq(Text)
<1>1. Count(cells) \in Nat
  BY CountProperties
<1>2. ASSUME NEW k \in 1..Count(cells)
      PROVE  Stripped(SubSeq(cells, LineEnd(cells, k - 1) + 1, LineEnd(cells, k) - 1)) \in Text
  <2>1. k \in 0..Count(cells) /\ k - 1 \in 0..Count(cells)
    BY <1>1
  <2>2. LineEnd(cells, k - 1) \in 0..Len(cells) /\ LineEnd(cells, k) \in 0..Len(cells)
    BY <2>1, LineEndProperties
  <2> QED BY <2>2, LineType, StrippedType
<1>3. FirstLines(cells) \in [1..Count(cells) -> Text]
  BY <1>2 DEF FirstLines
<1> QED BY <1>1, <1>3, SeqDef

(* ... what follows the last complete line is one,                          *)
LEMMA AfterType ==
  ASSUME NEW cells \in Text, options \in Options
  PROVE  After(cells) \in Text
<1>1. Count(cells) \in 0..Count(cells)
  BY CountProperties
<1>2. LineEnd(cells, Count(cells)) \in 0..Len(cells)
  BY <1>1, LineEndProperties
<1> QED BY <1>2, LineType DEF After

(* ... and so are the records of a request.                                 *)
LEMMA IngestType ==
  ASSUME NEW body \in Body
  PROVE  IngestMessages(body) \in Seq(Text)
<1> DEFINE objects == {i \in DOMAIN body.items : body.items[i].kind = "object"}
<1>1. body.items \in Seq(Item) /\ body.text \in Text /\ Len(body.items) \in Nat
  BY DEF Body
<1>2. objects \in SUBSET (1..Len(body.items))
  BY <1>1
<1>3. Cardinality(objects) \in Nat
  BY <1>1, <1>2, PartFinite
<1>4. ASSUME NEW k \in 1..Cardinality(objects)
      PROVE  body.items[Nth(objects, k)].text \in Text
  <2>1. Nth(objects, k) \in objects
    BY <1>1, <1>2, NthIsMember
  <2> HIDE DEF objects
  <2>2. body.items[Nth(objects, k)] \in Item
    BY <1>1, <1>2, <2>1
  <2> QED BY <2>2 DEF Item
<1>5. [k \in 1..Cardinality(objects) |-> body.items[Nth(objects, k)].text] \in Seq(Text)
  <2>1. [k \in 1..Cardinality(objects) |-> body.items[Nth(objects, k)].text]
          \in [1..Cardinality(objects) -> Text]
    BY <1>4
  <2> DEFINE n == Cardinality(objects)
             f == [k \in 1..n |-> body.items[Nth(objects, k)].text]
  <2>2. n \in Nat /\ f \in [1..n -> Text]
    BY <1>3, <2>1
  <2> HIDE DEF n, f
  <2>3. f \in Seq(Text)
    BY ONLY <2>2
  <2> QED BY <2>3 DEF f, n
<1>6. <<body.text>> \in Seq(Text) /\ <<>> \in Seq(Text)
  BY <1>1
<1>7. RecordsArray(body) \in Seq(Text)
  BY <1>5, <1>6 DEF RecordsArray
<1> QED BY <1>6, <1>7 DEF IngestMessages

-----------------------------------------------------------------------------
(* Where main has not started its sources.                                  *)
NotStarted == Stopped \cup {"boot", "listen", "sources"}
(* Where main has waited for the end of a source.                           *)
Past == [file |-> {"stdin", "tcp", "udp", "unix", "http", "engine", "return"},
         stdin |-> {"tcp", "udp", "unix", "http", "engine", "return"},
         tcp |-> {"udp", "unix", "http", "engine", "return"},
         udp |-> {"unix", "http", "engine", "return"}, unix |-> {"http", "engine", "return"}]
(* Where main has started the delivery scanners.                            *)
Scanning == {"wait", "scanners", "http", "engine", "return"} \cup Sources

(* The types of the variables, one part for each group of them.             *)
Control ==
  /\ options \in Options /\ main \in Places /\ engine \in {"down", "up", "stopped"}
  /\ {signaled, stopping, legacy, pending, delivered, torn} \subseteq BOOLEAN
  /\ scanner \in {"off", "idle", "sent", "done"}
Records == queued \in Seq(Text) /\ stored \in Seq(Text) /\ taken \in Seq(Text)
Counters == late \in Nat /\ faults \in Nat /\ crashes \in Nat /\ starts \in Nat
(* x is a state of the service of source s: within its connection limit and *)
(* its batch limit.                                                         *)
Fits(s, x) ==
  /\ x \in Served
  /\ x.at \in Stages[s]
  /\ options.limit > 0 => x.served <= options.limit
  /\ Len(x.lines) <= options.max_lines
  /\ x.at = "getline" => Len(x.lines) < options.max_lines
SourceType == source \in [Sources -> Served] /\ \A s \in Sources : Fits(s, source[s])
(* What is known of a connection; it is read up to what was sent.           *)
Peer == [state : {"none", "queued", "open", "left"}, sent : Nat, read : Nat, closed : {"no", "end",
  "reset"}]
ConnType ==
  /\ conn \in [Conns -> Peer]
  /\ \A c \in Conns : conn[c].read <= conn[c].sent /\ conn[c].sent <= Len(Wire[c])
InputType ==
  /\ arrived \in [queue : Seq(Text), next : Nat]
  /\ typed \in [lines : Seq(Text), next : Nat \ {0}, ended : BOOLEAN]
(* A request under way.                                                     *)
Asked == [at : {"none", "sent", "append", "200", "400", "413", "503", "lost"}, body : Body,
  run : Nat]
RequestType == request \in [Requests -> Asked]

(* Past the wait for a source the source has ended, and before StartSources *)
(* it has not begun.                                                        *)
Awaited == \A s \in Sources : main \in NotStarted \cup Past[s] => source[s].at = "done"
(* main alone decides whether the engine is up.                             *)
EngineOK == engine = IF main \in Stopped \cup {"boot"} THEN "down"
                     ELSE IF main = "return" THEN "stopped" ELSE "up"
(* Requests are answered while the HTTP server runs, and each belongs to a  *)
(* run that was launched.                                                   *)
RequestsOK == \A r \in Requests :
  /\ request[r].at \in {"sent", "append"}
       => main \notin Stopped \cup {"boot", "listen", "engine", "return"}
  /\ request[r].run <= starts
(* The last records of t are those of s.                                    *)
EndsWith(t, s) == Len(s) <= Len(t) /\ \A i \in 1..Len(s) : s[i] = t[Len(t) - Len(s) + i]
(* What the engine has taken since the launch is the end of what it stored  *)
(* and queued; a clean stop leaves it stored. No record reached an engine   *)
(* that was down. A request that was answered 200 in this run had its       *)
(* messages taken.                                                          *)
TakenOK ==
  /\ late = 0
  /\ main \notin Stopped => EndsWith(stored \o queued, taken)
  /\ main = "exited" => EndsWith(stored, taken)
  /\ main \in Stopped \cup {"return"} => queued = <<>>
  /\ \A r \in Requests : request[r].at = "200"
     /\ request[r].run = starts => Messages(r) \subseteq ToSet(taken)
(* A batch that was not delivered is in the legacy file or in the pending   *)
(* file. The pending file of a migration is written before the legacy file  *)
(* is removed, and the two are both there only in between, or after a crash *)
(* in between.                                                              *)
MigrationOK ==
  /\ ~delivered => legacy \/ pending
  /\ main = "remove" => pending
  /\ main \in {"check", "store", "remove"} => legacy
  /\ main = "store" => ~pending
  /\ scanner = "sent" => pending /\ delivered
  /\ scanner # "off" => main \in Scanning
  /\ main \in Scanning \cup {"scan", "exited"} => ~legacy
  /\ legacy => options.sink
  /\ legacy /\ pending => torn \/ main = "remove"
  /\ main = "failed_migration" => torn

(* The types together.                                                      *)
Typed == Control /\ Records /\ Counters /\ SourceType /\ ConnType /\ InputType /\ RequestType
(* The inductive invariant.                                                 *)
IndInv == Typed /\ Awaited /\ EngineOK /\ RequestsOK /\ TakenOK /\ MigrationOK

-----------------------------------------------------------------------------
(* The parts give the type invariant.                                       *)
LEMMA TypesGive == Typed => TypeOK
<1> SUFFICES ASSUME Typed PROVE TypeOK OBVIOUS
<1>1. /\ options \in Options /\ main \in Places /\ engine \in {"down", "up", "stopped"}
      /\ {signaled, stopping, legacy, pending, delivered, torn} \subseteq BOOLEAN
      /\ scanner \in {"off", "idle", "sent", "done"}
  BY DEF Typed, Control
<1>2. {queued, stored, taken} \subseteq Seq(Text) /\ {late, faults, crashes, starts} \subseteq Nat
  BY DEF Typed, Records, Counters
<1>3. /\ source \in [Sources -> Served]
      /\ \A s \in Sources : /\ source[s].at \in Stages[s]
                            /\ options.limit > 0 => source[s].served <= options.limit
                            /\ Len(source[s].lines) <= options.max_lines
  BY DEF Typed, SourceType, Fits
<1>4. ConnType /\ InputType /\ RequestType
  BY DEF Typed
<1> QED BY <1>1, <1>2, <1>3, <1>4 DEF TypeOK, ConnType, InputType, RequestType, Peer,
Asked

(* What a source's step leaves alone,                                       *)
LEMMA SourceFrame ==
  ASSUME NEW s \in Sources, SourceStep(s)
  PROVE  UNCHANGED <<options, main, signaled, stopping, engine, stored, request,
                     deliveryVars, torn, crashes, starts>>
<1>1. CASE AppendSucceeds(s)
  BY <1>1 DEF AppendSucceeds, history
<1>2. CASE AppendFails(s)
  BY <1>2 DEF AppendFails
<1>3. CASE StreamStep
  BY <1>3 DEF StreamStep, history
<1> QED BY <1>1, <1>2, <1>3 DEF SourceStep, Accept, Read, ReadEnds, Receive, GetLine,
GetLineEnds, PollEnds

(* ... what the answer to a request leaves alone,                           *)
LEMMA AnswerFrame ==
  ASSUME NEW r \in Requests, Answer(r)
  PROVE  UNCHANGED <<options, main, signaled, stopping, engine, stored, streamVars,
                     deliveryVars, torn, crashes, starts>>
BY DEF Answer, Handle, IngestSucceeds, IngestFails, RequestStep

(* ... what a flush,                                                        *)
LEMMA FlushFrame ==
  ASSUME Flush
  PROVE  UNCHANGED <<options, main, signaled, stopping, engine, streamVars, request,
                     deliveryVars, taken, late, history>>
BY DEF Flush

(* ... what a delivery scan,                                                *)
LEMMA ScanFrame ==
  ASSUME Scan
  PROVE  UNCHANGED <<options, main, signaled, stopping, engine, queued, stored,
                     streamVars, request, legacy, taken, late, history>>
BY DEF Scan, Deliver, RemovePending, ScannerEnds, ScannerStep

(* The steps of main that touch neither sources nor records.                *)
MainQuiet ==
  \/ StartEngine \/ Listen \/ LoadLegacy \/ CheckPending \/ StorePending \/ RemoveLegacy
     \/ StartScanners
  \/ StopAsked \/ AwaitScanners \/ (\E s \in Sources : AwaitSource(s)) \/ StopHttp

(* What they leave alone.                                                   *)
LEMMA MainFrame ==
  ASSUME MainQuiet
  PROVE  UNCHANGED <<options, signaled, queued, stored, streamVars, request, delivered,
                     taken, late, history>>
BY DEF MainQuiet, StartEngine, Listen, LoadLegacy, CheckPending, StorePending,
   RemoveLegacy, StartScanners,
       StopAsked, AwaitScanners, AwaitSource, StopHttp, MainOnly

(* The steps of the world outside the process, its crash and its launch     *)
(* apart.                                                                   *)
WorldQuiet ==
  \/ Signal \/ Types \/ EndsInput
  \/ \E c \in Conns : Connects(c) \/ Sends(c) \/ Closes(c, "end") \/ Closes(c, "reset")
  \/ \E k \in DOMAIN Datagram : Arrives(k)
  \/ \E r \in Requests : \E body \in options.bodies : Posts(r, body)

(* What they leave alone.                                                   *)
LEMMA WorldFrame ==
  ASSUME WorldQuiet
  PROVE  UNCHANGED <<options, main, stopping, engine, queued, stored, source,
                     deliveryVars, late, history, taken>>
BY DEF WorldQuiet, Signal, Types, EndsInput, Connects, Sends, Closes, Arrives, Posts,
   Outside, history

(* Every step is one of these.                                              *)
LEMMA NextCases ==
  ASSUME Next
  PROVE  \/ MainQuiet \/ StartSources \/ StopEngine
         \/ Return \/ MainThrows \/ Crash \/ Launch
         \/ Scan \/ Flush \/ WorldQuiet
         \/ (\E s \in Sources : SourceStep(s))
         \/ (\E r \in Requests : Answer(r))
BY DEF Next, MainStep, MainQuiet, World, WorldQuiet

-----------------------------------------------------------------------------
(* The types of the options.                                                *)
LEMMA OptionTypes ==
  ASSUME options \in Options
  PROVE  /\ options.sources \subseteq Sources /\ options.sink \in BOOLEAN /\ options.limit \in Nat
         /\ options.starts \in Nat /\ options.max_lines \in Nat \ {0}
            /\ options.bodies \subseteq Body
BY AgentAssumption

(* What the end of the process does to what is in memory.                   *)
LEMMA GoneFrame ==
  ASSUME Return \/ MainThrows \/ Crash
  PROVE  /\ Gone
         /\ main' \in Stopped /\ UNCHANGED stored
         /\ crashes' = crashes \/ crashes' = crashes + 1
         /\ torn' = torn \/ torn' = (torn \/ main = "remove")
BY DEF Return, MainThrows, Crash, Go, Stopped

(* Every step keeps the types of the control variables,                     *)
LEMMA ControlStep ==
  ASSUME IndInv, Next
  PROVE  Control'
<1> /\ options \in Options /\ main \in Places /\ engine \in {"down", "up", "stopped"}
    /\ {signaled, stopping, legacy, pending, delivered, torn} \subseteq BOOLEAN
    /\ scanner \in {"off", "idle", "sent", "done"}
  BY DEF IndInv, Typed, Control
<1>1. CASE MainQuiet
  <2>1. UNCHANGED <<options, signaled, delivered, torn>>
    BY <1>1, MainFrame DEF history
  <2>2. main' \in Places
    <3>1. CASE \E s \in Sources : AwaitSource(s)
      BY <3>1 DEF AwaitSource, Go, Following, Sources, Places
    <3>2. CASE LoadLegacy
      BY <3>2 DEF LoadLegacy, Go, Places
    <3> QED BY <1>1, <3>1, <3>2 DEF MainQuiet, StartEngine, Listen, CheckPending,
    StorePending, RemoveLegacy,
                  StartScanners, StopAsked, AwaitScanners, StopHttp, Go, Places, Sources
  <2>3. engine' \in {"down", "up", "stopped"} /\ scanner' \in {"off", "idle", "sent", "done"}
    BY <1>1 DEF MainQuiet, StartEngine, Listen, LoadLegacy, CheckPending, StorePending,
       RemoveLegacy,
                StartScanners, StopAsked, AwaitScanners, AwaitSource, StopHttp
  <2>4. {stopping', legacy', pending'} \subseteq BOOLEAN
    BY <1>1 DEF MainQuiet, StartEngine, Listen, LoadLegacy, CheckPending, StorePending,
       RemoveLegacy,
                StartScanners, StopAsked, AwaitScanners, AwaitSource, StopHttp
  <2> QED BY <2>1, <2>2, <2>3, <2>4 DEF Control
<1>2. CASE StartSources
  BY <1>2 DEF StartSources, Go, Control, deliveryVars, history, Places, Stopped
<1>3. CASE StopEngine
  BY <1>3 DEF StopEngine, Go, Control, deliveryVars, history, Places, Stopped
<1>4. CASE Return \/ MainThrows \/ Crash
  <2>1. Gone /\ main' \in Places /\ torn' \in BOOLEAN
    BY <1>4, GoneFrame DEF Places
  <2> QED BY <2>1 DEF Gone, Control
<1>5. CASE Launch
  BY <1>5 DEF Launch, Outside, Control, deliveryVars, Places
<1>6. CASE Scan
  <2>1. UNCHANGED <<options, main, signaled, stopping, engine, legacy, torn>>
    BY <1>6, ScanFrame DEF history
  <2>2. {pending', delivered'} \subseteq BOOLEAN /\ scanner' \in {"off", "idle", "sent", "done"}
    BY <1>6 DEF Scan, Deliver, RemovePending, ScannerEnds
  <2> QED BY <2>1, <2>2 DEF Control
<1>7. CASE WorldQuiet
  <2>1. UNCHANGED <<options, main, stopping, engine, deliveryVars, torn>>
    BY <1>7, WorldFrame DEF history
  <2>2. signaled' \in BOOLEAN
    BY <1>7 DEF WorldQuiet, Signal, Types, EndsInput, Connects, Sends, Closes, Arrives,
       Posts
  <2> QED BY <2>1, <2>2 DEF Control, deliveryVars
<1>8. CASE Flush
  BY <1>8, FlushFrame DEF Control, deliveryVars, history
<1>9. CASE \E s \in Sources : SourceStep(s)
  BY <1>9, SourceFrame DEF Control, deliveryVars
<1>10. CASE \E r \in Requests : Answer(r)
  BY <1>10, AnswerFrame DEF Control, deliveryVars
<1> QED BY NextCases, <1>1, <1>2, <1>3, <1>4, <1>5, <1>6, <1>7, <1>8, <1>9, <1>10

(* A source appends texts.                                                  *)
LEMMA BatchType ==
  ASSUME IndInv, NEW s \in Sources
  PROVE  Batch(s) \in Seq(Text)
<1>1. source[s].buffer \in Text /\ source[s].lines \in Seq(Text) /\ options \in Options
  BY DEF IndInv, Typed, SourceType, Served, Control
<1> QED BY <1>1, FirstLinesType DEF Batch

(* append_batch keeps the record types.                                     *)
LEMMA TakeType ==
  ASSUME Records, NEW records \in Seq(Text), Take(records), UNCHANGED stored
  PROVE  Records'
<1>1. queued \o records \in Seq(Text) /\ taken \o records \in Seq(Text)
  BY ConcatProperties DEF Records
<1> QED BY <1>1 DEF Take, Records

(* ... of the records,                                                      *)
LEMMA RecordsStep ==
  ASSUME IndInv, Next
  PROVE  Records'
<1>0. Records
  BY DEF IndInv, Typed
<1>k. ASSUME UNCHANGED <<queued, stored, taken>> PROVE Records'
  BY <1>0, <1>k DEF Records
<1>e. <<>> \in Seq(Text) /\ stored \o queued \in Seq(Text)
  BY <1>0, ConcatProperties DEF Records
<1>1. CASE MainQuiet
  BY <1>1, <1>k, MainFrame
<1>2. CASE StartSources
  BY <1>2, <1>k DEF StartSources
<1>3. CASE StopEngine \/ Flush
  BY <1>0, <1>3, <1>e DEF StopEngine, Flush, Records
<1>4. CASE Return \/ MainThrows \/ Crash
  <2>1. Gone /\ UNCHANGED stored
    BY <1>4, GoneFrame
  <2> QED BY <1>0, <1>e, <2>1 DEF Gone, Records
<1>5. CASE Launch
  BY <1>0, <1>5, <1>e DEF Launch, Outside, Records
<1>6. CASE Scan
  BY <1>6, <1>k, ScanFrame
<1>7. CASE WorldQuiet
  BY <1>7, <1>k, WorldFrame
<1>8. CASE \E s \in Sources : SourceStep(s)
  <2> PICK s \in Sources : SourceStep(s)
    BY <1>8
  <2>1. CASE AppendSucceeds(s)
    <3>1. Take(Batch(s)) /\ UNCHANGED stored
      BY <2>1 DEF AppendSucceeds
    <3> QED BY ONLY <1>0, <3>1, BatchType, TakeType, IndInv, s \in Sources
  <2>2. CASE UNCHANGED <<queued, taken>>
    BY <1>k, <2>2, SourceFrame
  <2> QED BY <2>1, <2>2 DEF SourceStep, AppendFails, Accept, Read, ReadEnds, Receive,
  GetLine, GetLineEnds,
                            PollEnds, StreamStep
<1>9. CASE \E r \in Requests : Answer(r)
  <2> PICK r \in Requests : Answer(r)
    BY <1>9
  <2>1. CASE IngestSucceeds(r)
    <3>1. Take(IngestMessages(request[r].body)) /\ UNCHANGED stored
      BY <2>1 DEF IngestSucceeds, RequestStep
    <3>2. request[r].body \in Body
      BY DEF IndInv, Typed, RequestType, Asked
    <3> QED BY <1>0, <3>1, <3>2, IngestType, TakeType
  <2>2. CASE UNCHANGED <<queued, taken>>
    BY <1>k, <2>2, AnswerFrame
  <2> QED BY <2>1, <2>2 DEF Answer, Handle, IngestFails
<1> QED BY NextCases, <1>1, <1>2, <1>3, <1>4, <1>5, <1>6, <1>7, <1>8, <1>9

(* ... and of the counters.                                                 *)
LEMMA CountersStep ==
  ASSUME IndInv, Next
  PROVE  Counters'
<1>0. late \in Nat /\ faults \in Nat /\ crashes \in Nat /\ starts \in Nat
  BY DEF IndInv, Typed, Counters
<1>1. CASE MainQuiet
  BY <1>0, <1>1, MainFrame DEF Counters, history
<1>2. CASE StartSources \/ StopEngine
  BY <1>0, <1>2 DEF StartSources, StopEngine, Counters, history
<1>4. CASE Return \/ MainThrows \/ Crash
  <2>1. crashes' \in Nat
    BY <1>0, <1>4, GoneFrame
  <2>2. UNCHANGED <<late, faults, starts>>
    BY <1>4, GoneFrame DEF Gone
  <2> QED BY <1>0, <2>1, <2>2 DEF Counters
<1>5. CASE Launch
  BY <1>0, <1>5 DEF Launch, Outside, Counters
<1>6. CASE Scan
  BY <1>0, <1>6, ScanFrame DEF Counters, history
<1>7. CASE WorldQuiet
  BY <1>0, <1>7, WorldFrame DEF Counters, history
<1>3. CASE Flush
  BY <1>0, <1>3, FlushFrame DEF Counters, history
<1>t. ASSUME NEW records \in Seq(Text), Take(records) PROVE late' \in Nat
  <2>1. Len(records) \in Nat
    OBVIOUS
  <2> QED BY <1>0, <1>t, <2>1 DEF Take
<1>8. CASE \E s \in Sources : SourceStep(s)
  <2> PICK s \in Sources : SourceStep(s)
    BY <1>8
  <2>1. crashes' \in Nat /\ starts' \in Nat
    BY <1>0, SourceFrame
  <2>2. CASE AppendSucceeds(s)
    <3>1. late' \in Nat
      BY <1>t, <2>2, BatchType DEF AppendSucceeds
    <3>2. faults' = faults
      BY <2>2 DEF AppendSucceeds, history
    <3> QED BY <1>0, <2>1, <3>1, <3>2 DEF Counters
  <2>3. CASE AppendFails(s)
    BY <1>0, <2>1, <2>3 DEF AppendFails, Counters
  <2>4. CASE StreamStep
    BY <1>0, <2>4 DEF StreamStep, Counters, history
  <2> QED BY <2>2, <2>3, <2>4 DEF SourceStep, Accept, Read, ReadEnds, Receive, GetLine,
  GetLineEnds, PollEnds
<1>9. CASE \E r \in Requests : Answer(r)
  <2> PICK r \in Requests : Answer(r)
    BY <1>9
  <2>1. crashes' \in Nat /\ starts' \in Nat
    BY <1>0, AnswerFrame
  <2>2. request[r].body \in Body
    BY DEF IndInv, Typed, RequestType, Asked
  <2>3. late' \in Nat /\ faults' \in Nat
    BY <1>0, <1>t, <2>2, IngestType DEF Answer, Handle, IngestSucceeds, IngestFails
  <2> QED BY <2>1, <2>3 DEF Counters
<1> QED BY NextCases, <1>1, <1>2, <1>3, <1>4, <1>5, <1>6, <1>7, <1>8, <1>9

-----------------------------------------------------------------------------
(* A step of one source.                                                    *)
LEMMA SourceMoves ==
  ASSUME SourceType, NEW s \in Sources, NEW x, source' = [source EXCEPT ![s] = x], Fits(s, x),
         UNCHANGED options
  PROVE  SourceType'
BY DEF SourceType, Fits

(* What the types say of one source.                                        *)
LEMMA SourceTypes ==
  ASSUME IndInv, NEW s \in Sources
  PROVE  /\ source[s] \in Served /\ source[s].at \in Stages[s]
         /\ source[s].conn \in Conns \cup {0} /\ source[s].buffer \in Text
            /\ source[s].lines \in Seq(Text)
         /\ source[s].served \in Nat /\ Len(source[s].lines) \in Nat
         /\ options.limit > 0 => source[s].served <= options.limit
         /\ Len(source[s].lines) <= options.max_lines
         /\ source[s].at = "getline" => Len(source[s].lines) < options.max_lines
<1>1. source[s] \in Served /\ Fits(s, source[s])
  BY DEF IndInv, Typed, SourceType
<1>2. /\ source[s].conn \in Conns \cup {0} /\ source[s].buffer \in Text
         /\ source[s].lines \in Seq(Text)
      /\ source[s].served \in Nat
  BY <1>1 DEF Served
<1>3. Len(source[s].lines) \in Nat
  BY <1>2
<1> QED BY <1>1, <1>2, <1>3 DEF Fits

(* Nothing is a text.                                                       *)
LEMMA EmptyTexts == <<>> \in Text /\ <<>> \in Seq(Text) /\ Len(<<>>) = 0
BY DEF Text

(* The stages of the sources.                                               *)
LEMMA AllStages ==
  /\ \A s \in Sources : \A a \in Stages[s] : a \in UNION {Stages[t] : t \in Sources}
  /\ \A s \in Sources : "done" \in Stages[s]
  /\ \A s \in {"tcp", "unix"} : s \in Sources /\ Stages[s] = {"done", "append", "accept", "read"}
  /\ Stages["stdin"] = {"done", "failed", "append", "getline"}
  /\ Stages["udp"] = {"done", "failed", "append", "receive"}
  /\ Stages["file"] = {"done", "poll"}
BY DEF Stages, Sources

(* A source starts within its limits.                                       *)
LEMMA OffFits ==
  ASSUME options \in Options, NEW s \in Sources
  PROVE  Fits(s, Off) /\ (s \in options.sources => Fits(s, [Off EXCEPT !.at = First[s]]))
<1>1. options.limit \in Nat /\ options.max_lines \in Nat \ {0}
  BY OptionTypes
<1>2. First[s] \in Stages[s]
  BY DEF First, Stages, Sources
<1>3. Off \in Served /\ [Off EXCEPT !.at = First[s]] \in Served
  BY <1>2, AllStages, EmptyTexts DEF Off, Served
<1> QED BY <1>1, <1>2, <1>3, AllStages, EmptyTexts DEF Fits, Off

(* A source goes on or sees the stop flag.                                  *)
LEMMA AgainCases == \A a : Again(a) \in {a, "done"}
BY DEF Again

(* After an append, successful or refused, a source is within its limits.   *)
LEMMA AppendedFits ==
  ASSUME IndInv, NEW s \in Sources, source[s].at = "append"
  PROVE  Fits(s, Appended(s)) /\ Fits(s, Refused(s))
<1>0. options \in Options /\ options.limit \in Nat /\ options.max_lines \in Nat \ {0}
  BY OptionTypes DEF IndInv, Typed, Control
<1>1. CASE s \in {"tcp", "unix"}
  <2> DEFINE a == IF Ends(After(source[s].buffer)) # {} THEN "append" ELSE Again("read")
  <2>1. a \in Stages[s] /\ a # "getline" /\ a \in UNION {Stages[t] : t \in Sources}
    BY <1>1, AllStages, AgainCases
  <2>2. After(source[s].buffer) \in Text
    BY <1>0, AfterType, SourceTypes
  <2>3. Appended(s) = [source[s] EXCEPT !.buffer = After(source[s].buffer), !.at = a]
    BY <1>1 DEF Appended
  <2>4. Refused(s) = [source[s] EXCEPT !.buffer = <<>>, !.conn = 0, !.at = Again("accept")]
    BY <1>1 DEF Refused
  <2>5. Again("accept") \in Stages[s] /\ Again("accept") # "getline"
        /\ Again("accept") \in UNION {Stages[t] : t \in Sources}
    BY <1>1, AllStages, AgainCases
  <2> HIDE DEF a
  <2>6. Fits(s, Appended(s))
    BY <2>1, <2>2, <2>3, SourceTypes DEF Fits, Served
  <2>7. Fits(s, Refused(s))
    BY <2>4, <2>5, SourceTypes, EmptyTexts DEF Fits, Served
  <2> QED BY <2>6, <2>7
<1>2. CASE s \in {"stdin", "udp"}
  <2> DEFINE a == IF s = "stdin" THEN Again("getline") ELSE Again("receive")
  <2>1. a \in Stages[s] /\ "failed" \in Stages[s]
    BY <1>2, AllStages, AgainCases
  <2>2. a \in UNION {Stages[t] : t \in Sources} /\ "failed" \in UNION {Stages[t] : t \in Sources}
    BY <2>1, AllStages
  <2>3. Appended(s) = [[source[s] EXCEPT !.lines = <<>>] EXCEPT !.at = a]
    BY <1>2 DEF Appended
  <2>4. Refused(s) = [source[s] EXCEPT !.lines = <<>>, !.at = "failed"]
    BY <1>2 DEF Refused
  <2> HIDE DEF a
  <2>5. 0 < options.max_lines /\ 0 <= options.max_lines
    BY <1>0
  <2>6. Fits(s, Appended(s))
    BY <2>1, <2>2, <2>3, <2>5, SourceTypes, EmptyTexts DEF Fits, Served
  <2>7. Fits(s, Refused(s))
    BY <2>1, <2>2, <2>4, <2>5, SourceTypes, EmptyTexts DEF Fits, Served
  <2> QED BY <2>6, <2>7
<1>3. CASE s = "file"
  BY <1>3, AllStages, SourceTypes
<1> QED BY <1>1, <1>2, <1>3 DEF Sources

(* read adds text to the buffer.                                            *)
LEMMA ReadCells ==
  ASSUME NEW c \in Conns, NEW a \in Nat, NEW n \in Nat, a + n <= Len(Wire[c]), NEW buffer \in Text
  PROVE  buffer \o SubSeq(Wire[c], a + 1, a + n) \in Text
<1>1. Wire[c] \in Seq(Int) /\ Len(Wire[c]) \in Nat
  BY AgentAssumption DEF Text
<1>2. \A i \in (a + 1)..(a + n) : Wire[c][i] \in Int
  BY <1>1
<1>3. SubSeq(Wire[c], a + 1, a + n) \in Seq(Int)
  BY <1>1, <1>2, SubSeqProperties
<1> QED BY <1>3, ConcatProperties DEF Text

(* The steps of the stream sockets,                                         *)
LEMMA SocketStep ==
  ASSUME IndInv, NEW s \in {"tcp", "unix"}, UNCHANGED options,
         \/ \E c \in Conns : Accept(s, c)
         \/ source[s].conn # 0 /\ \E n \in 1..Len(Wire[source[s].conn]) : Read(s, n)
         \/ source[s].conn # 0 /\ ReadEnds(s)
  PROVE  SourceType'
<1>0. SourceType /\ s \in Sources /\ options \in Options /\ options.limit \in Nat
  BY OptionTypes, AllStages DEF IndInv, Typed, Control
<1>1. \A a : Again(a) = a \/ Again(a) = "done"
  BY AgainCases
<1>s. \A a \in {"append", "accept", "read", "done", Again("accept"), Again("read")} :
        a \in Stages[s] /\ a # "getline" /\ a \in UNION {Stages[t] : t \in Sources}
  BY <1>1, AllStages
<1>2. ASSUME NEW c \in Conns, Accept(s, c) PROVE SourceType'
  <2> DEFINE full == options.limit > 0 /\ source[s].served >= options.limit
             x == IF full THEN [source[s] EXCEPT !.at = Again("accept")]
                  ELSE [source[s] EXCEPT !.at = Again("read"), !.conn = c,
                    !.served = source[s].served + 1]
  <2>1. source' = [source EXCEPT ![s] = x]
    <3>1. source' = [source EXCEPT ![s] =
            IF full THEN [source[s] EXCEPT !.at = Again("accept")]
            ELSE [source[s] EXCEPT !.at = Again("read"), !.conn = c,
              !.served = source[s].served + 1]]
      BY <1>0, <1>2 DEF Accept, SourceType
    <3> QED BY <3>1
  <2>2. Fits(s, x)
    <3>1. CASE full
      BY <1>s, <3>1, SourceTypes, <1>0 DEF Fits, Served
    <3>2. CASE ~full
      <4>1. options.limit > 0 => source[s].served + 1 <= options.limit
        BY <1>0, <3>2, SourceTypes
      <4>2. x = [source[s] EXCEPT !.at = Again("read"), !.conn = c, !.served = source[s].served + 1]
        BY <3>2
      <4>3. source[s].served + 1 \in Nat
        BY <1>0, SourceTypes
      <4> HIDE DEF x, full
      <4> QED BY <1>0, <1>s, <4>1, <4>2, <4>3, SourceTypes DEF Fits, Served
    <3> QED BY <3>1, <3>2
  <2> HIDE DEF x
  <2> QED BY <1>0, <2>1, <2>2, SourceMoves
<1>3. ASSUME source[s].conn # 0, NEW n \in 1..Len(Wire[source[s].conn]), Read(s, n)
      PROVE SourceType'
  <2> DEFINE c == source[s].conn
             buffer == source[s].buffer \o SubSeq(Wire[c], conn[c].read + 1, conn[c].read + n)
             a == IF Ends(buffer) # {} THEN "append" ELSE Again("read")
             x == [source[s] EXCEPT !.buffer = buffer, !.at = a]
  <2>1. c \in Conns
    BY <1>0, <1>3, SourceTypes
  <2>2. conn[c].read \in Nat /\ conn[c].sent \in Nat /\ conn[c].sent <= Len(Wire[c])
        /\ Len(Wire[c]) \in Nat
    BY SMTT(30), <2>1, AgentAssumption DEF IndInv, Typed, ConnType, Peer, Text
  <2>3. n \in Nat /\ conn[c].read + n <= Len(Wire[c])
    <3>1. conn[c].read + n <= conn[c].sent
      BY <1>3 DEF Read
    <3> QED BY SMTT(30), <2>2, <3>1
  <2>4. buffer \in Text
    BY <1>0, <2>1, <2>2, <2>3, ReadCells, SourceTypes
  <2>5. source' = [source EXCEPT ![s] = x]
    BY <1>0, <1>3 DEF Read, SourceType
  <2>6. a \in Stages[s] /\ a # "getline" /\ a \in UNION {Stages[t] : t \in Sources}
    BY <1>s
  <2> HIDE DEF a, buffer, c
  <2>7. Fits(s, x)
    BY <1>0, <2>4, <2>6, SourceTypes DEF Fits, Served
  <2> HIDE DEF x
  <2> QED BY <1>0, <2>5, <2>7, SourceMoves
<1>4. ASSUME ReadEnds(s) PROVE SourceType'
  <2> DEFINE x == [source[s] EXCEPT !.at = Again("accept"), !.conn = 0, !.buffer = <<>>]
  <2>1. source' = [source EXCEPT ![s] = x]
    BY <1>0, <1>4 DEF ReadEnds, SourceType
  <2>2. Fits(s, x)
    BY <1>0, <1>s, SourceTypes, EmptyTexts DEF Fits, Served
  <2> HIDE DEF x
  <2> QED BY <1>0, <2>1, <2>2, SourceMoves
<1> QED BY <1>2, <1>3, <1>4

(* ... and of standard input, datagrams and files keep a source's types.    *)
LEMMA LocalStep ==
  ASSUME IndInv, UNCHANGED options, Receive \/ GetLine \/ GetLineEnds \/ PollEnds
  PROVE  SourceType'
<1>0. /\ SourceType /\ {"file", "stdin", "udp"} \subseteq Sources
      /\ options \in Options /\ options.max_lines \in Nat \ {0}
  BY OptionTypes DEF IndInv, Typed, Control, Sources
<1>t. \A s \in Sources : \A a \in Stages[s] : a \in UNION {Stages[t] : t \in Sources}
  BY AllStages
<1>1. CASE Receive
  <2> DEFINE x == [source["udp"] EXCEPT !.lines = <<Head(arrived.queue)>>,
  !.at = "append"]
  <2>1. source' = [source EXCEPT !["udp"] = x]
    BY <1>0, <1>1 DEF Receive, SourceType
  <2>2. <<Head(arrived.queue)>> \in Seq(Text) /\ Len(<<Head(arrived.queue)>>) = 1
    BY <1>1 DEF Receive, IndInv, Typed, InputType
  <2>3. "append" \in Stages["udp"] /\ "append" \in UNION {Stages[t] : t \in Sources}
    BY <1>t, <1>0, AllStages
  <2>5. 1 <= options.max_lines
    BY <1>0
  <2>4. Fits("udp", x)
    BY <1>0, <2>5, <2>2, <2>3, SourceTypes DEF Fits, Served
  <2> HIDE DEF x
  <2> QED BY <1>0, <2>1, <2>4, SourceMoves
<1>2. CASE GetLine
  <2> DEFINE lines == Append(source["stdin"].lines, Head(typed.lines))
             a == IF Len(lines) >= options.max_lines THEN "append" ELSE "getline"
             x == [source["stdin"] EXCEPT !.lines = lines, !.at = a]
  <2>1. source' = [source EXCEPT !["stdin"] = x]
    BY <1>0, <1>2 DEF GetLine, SourceType
  <2>2. source["stdin"].lines \in Seq(Text) /\ Len(source["stdin"].lines) < options.max_lines
        /\ Len(source["stdin"].lines) \in Nat /\ Head(typed.lines) \in Text
    BY <1>0, <1>2, SourceTypes DEF GetLine, IndInv, Typed, InputType
  <2>3. lines \in Seq(Text) /\ Len(lines) = Len(source["stdin"].lines) + 1
    BY <2>2, AppendProperties
  <2>4. a \in Stages["stdin"] /\ a \in UNION {Stages[t] : t \in Sources}
    BY <1>t, <1>0, AllStages
  <2>5. Len(lines) <= options.max_lines /\ (a = "getline" => Len(lines) < options.max_lines)
    BY <1>0, <2>2, <2>3
  <2> HIDE DEF lines, a
  <2>6. Fits("stdin", x)
    BY <1>0, <2>3, <2>4, <2>5, SourceTypes DEF Fits, Served
  <2> HIDE DEF x
  <2> QED BY <1>0, <2>1, <2>6, SourceMoves
<1>3. CASE GetLineEnds
  <2> DEFINE a == IF source["stdin"].lines = <<>> THEN "done" ELSE "append"
             x == [source["stdin"] EXCEPT !.at = a]
  <2>1. source' = [source EXCEPT !["stdin"] = x]
    BY <1>0, <1>3 DEF GetLineEnds, SourceType
  <2>2. a \in Stages["stdin"] /\ a \in UNION {Stages[t] : t \in Sources} /\ a # "getline"
    BY <1>t, <1>0, AllStages
  <2> HIDE DEF a
  <2>3. Fits("stdin", x)
    BY <1>0, <2>2, SourceTypes DEF Fits, Served
  <2> HIDE DEF x
  <2> QED BY <1>0, <2>1, <2>3, SourceMoves
<1>4. CASE PollEnds
  <2> DEFINE x == [source["file"] EXCEPT !.at = "done"]
  <2>1. source' = [source EXCEPT !["file"] = x]
    BY <1>0, <1>4 DEF PollEnds, SourceType
  <2>2. "done" \in Stages["file"] /\ "done" \in UNION {Stages[t] : t \in Sources}
    BY <1>t, <1>0, AllStages
  <2>3. Fits("file", x)
    BY <1>0, <2>2, SourceTypes DEF Fits, Served
  <2> HIDE DEF x
  <2> QED BY <1>0, <2>1, <2>3, SourceMoves
<1> QED BY <1>1, <1>2, <1>3, <1>4

(* Every step keeps the sources' types.                                     *)
LEMMA SourceTypeStep ==
  ASSUME IndInv, Next
  PROVE  SourceType'
<1>0. SourceType /\ options \in Options
  BY DEF IndInv, Typed, Control
<1>k. ASSUME UNCHANGED <<options, source>> PROVE SourceType'
  BY <1>0, <1>k DEF SourceType, Fits
<1>1. CASE MainQuiet
  BY <1>1, <1>k, MainFrame DEF streamVars
<1>2. CASE StartSources
  <2>1. UNCHANGED options /\ source' = [s \in Sources |->
          IF s \in options.sources THEN [Off EXCEPT !.at = First[s]] ELSE Off]
    BY <1>2 DEF StartSources
  <2>2. \A s \in Sources : Fits(s, source'[s])
    BY <1>0, <2>1, OffFits
  <2>3. \A s \in Sources : source'[s] \in Served
    BY <2>2 DEF Fits
  <2> QED BY <2>1, <2>2, <2>3 DEF SourceType, Fits
<1>3. CASE StopEngine
  BY <1>3, <1>k DEF StopEngine, streamVars
<1>4. CASE Return \/ MainThrows \/ Crash
  <2>1. UNCHANGED options /\ source' = [s \in Sources |-> Off]
    BY <1>4, GoneFrame DEF Gone
  <2>2. \A s \in Sources : Fits(s, source'[s])
    BY <1>0, <2>1, OffFits
  <2>3. \A s \in Sources : source'[s] \in Served
    BY <2>2 DEF Fits
  <2> QED BY <2>1, <2>2, <2>3 DEF SourceType, Fits
<1>5. CASE Launch
  BY <1>5, <1>k DEF Launch, Outside
<1>6. CASE Scan
  BY <1>6, <1>k, ScanFrame DEF streamVars
<1>7. CASE WorldQuiet
  BY <1>7, <1>k, WorldFrame
<1>8. CASE Flush
  BY <1>8, <1>k, FlushFrame DEF streamVars
<1>9. CASE \E r \in Requests : Answer(r)
  BY <1>9, <1>k, AnswerFrame DEF streamVars
<1>10. CASE \E s \in Sources : SourceStep(s)
  <2> PICK s \in Sources : SourceStep(s)
    BY <1>10
  <2>1. UNCHANGED options
    BY SourceFrame
  <2>2. CASE AppendSucceeds(s)
    <3>1. source[s].at = "append" /\ source' = [source EXCEPT ![s] = Appended(s)]
      BY <2>2 DEF AppendSucceeds
    <3> QED BY <1>0, <2>1, <3>1, AppendedFits, SourceMoves
  <2>3. CASE AppendFails(s)
    <3>1. source[s].at = "append" /\ source' = [source EXCEPT ![s] = Refused(s)]
      BY <2>3 DEF AppendFails
    <3> QED BY <1>0, <2>1, <3>1, AppendedFits, SourceMoves
  <2> QED BY <2>1, <2>2, <2>3, SocketStep, LocalStep DEF SourceStep
<1> QED BY NextCases, <1>1, <1>2, <1>3, <1>4, <1>5, <1>6, <1>7, <1>8, <1>9, <1>10

-----------------------------------------------------------------------------
(* What the types say of one connection.                                    *)
LEMMA PeerTypes ==
  ASSUME IndInv, NEW c \in Conns
  PROVE  /\ conn[c] \in Peer /\ conn[c].read \in Nat /\ conn[c].sent \in Nat
         /\ conn[c].read <= conn[c].sent /\ conn[c].sent <= Len(Wire[c])
         /\ Wire[c] \in Seq(Int) /\ Len(Wire[c]) \in Nat
<1>1. conn[c] \in Peer /\ conn[c].read <= conn[c].sent /\ conn[c].sent <= Len(Wire[c])
  BY DEF IndInv, Typed, ConnType
<1>2. Wire[c] \in Seq(Int)
  BY AgentAssumption DEF Text
<1> QED BY <1>1, <1>2 DEF Peer

(* A step of one connection.                                                *)
LEMMA PeerMoves ==
  ASSUME ConnType, NEW c \in Conns, NEW x \in Peer, conn' = [conn EXCEPT ![c] = x],
         x.read <= x.sent, x.sent <= Len(Wire[c])
  PROVE  ConnType'
BY DEF ConnType

(* Connections are dropped.                                                 *)
LEMMA PeersLeave ==
  ASSUME ConnType, NEW L, conn'
           = [c \in Conns |-> IF c \in L THEN [conn[c] EXCEPT !.state = "left"] ELSE conn[c]]
  PROVE  ConnType'
<1>1. ASSUME NEW c \in Conns
      PROVE  conn'[c] \in Peer /\ conn'[c].read <= conn'[c].sent /\ conn'[c].sent <= Len(Wire[c])
  <2>1. conn[c] \in Peer /\ conn[c].read <= conn[c].sent /\ conn[c].sent <= Len(Wire[c])
    BY DEF ConnType
  <2>2. CASE c \in L
    BY <2>1, <2>2 DEF Peer
  <2>3. CASE c \notin L
    BY <2>1, <2>3
  <2> QED BY <2>2, <2>3
<1> QED BY <1>1 DEF ConnType

(* A source drops its connection.                                           *)
LEMMA LeaveType ==
  ASSUME ConnType, NEW s, Leave(s)
  PROVE  ConnType'
<1> DEFINE L == {source[s].conn}
<1>1. conn' = [c \in Conns |-> IF c \in L THEN [conn[c] EXCEPT !.state = "left"] ELSE conn[c]]
  BY DEF Leave
<1> HIDE DEF L
<1> QED BY <1>1, PeersLeave

(* Every step keeps the connections' types,                                 *)
LEMMA ConnTypeStep ==
  ASSUME IndInv, Next
  PROVE  ConnType'
<1>0. ConnType
  BY DEF IndInv, Typed
<1>k. ASSUME UNCHANGED conn PROVE ConnType'
  BY <1>0, <1>k DEF ConnType
<1>1. CASE MainQuiet
  BY <1>1, <1>k, MainFrame DEF streamVars
<1>2. CASE StartSources \/ StopEngine
  BY <1>2, <1>k DEF StartSources, StopEngine, streamVars
<1>4. CASE Return \/ MainThrows \/ Crash
  <2> DEFINE L == {c \in Conns : conn[c].state \in {"queued", "open"}}
  <2>1. conn' = [c \in Conns |-> IF conn[c].state \in {"queued", "open"}
                                  THEN [conn[c] EXCEPT !.state = "left"] ELSE conn[c]]
    BY <1>4, GoneFrame DEF Gone
  <2>2. conn' = [c \in Conns |-> IF c \in L THEN [conn[c] EXCEPT !.state = "left"] ELSE conn[c]]
    BY <2>1
  <2> HIDE DEF L
  <2> QED BY <1>0, <2>2, PeersLeave
<1>5. CASE Launch
  BY <1>5, <1>k DEF Launch
<1>6. CASE Scan
  BY <1>6, <1>k, ScanFrame DEF streamVars
<1>8. CASE Flush
  BY <1>8, <1>k, FlushFrame DEF streamVars
<1>9. CASE \E r \in Requests : Answer(r)
  BY <1>9, <1>k, AnswerFrame DEF streamVars
<1>7. CASE WorldQuiet
  <2>1. CASE UNCHANGED conn
    BY <1>k, <2>1
  <2>2. ASSUME NEW c \in Conns, Connects(c) PROVE ConnType'
    <3> DEFINE x == [conn[c] EXCEPT !.state = "queued"]
    <3>1. conn' = [conn EXCEPT ![c] = x]
      BY <1>0, <2>2 DEF Connects, ConnType
    <3>2. x \in Peer /\ x.read <= x.sent /\ x.sent <= Len(Wire[c])
      BY PeerTypes DEF Peer
    <3> HIDE DEF x
    <3> QED BY <1>0, <3>1, <3>2, PeerMoves
  <2>3. ASSUME NEW c \in Conns, Sends(c) PROVE ConnType'
    <3> DEFINE x == [conn[c] EXCEPT !.sent = Len(Wire[c])]
    <3>1. conn' = [conn EXCEPT ![c] = x]
      BY <1>0, <2>3 DEF Sends, ConnType
    <3>2. conn[c].read <= Len(Wire[c]) /\ Len(Wire[c]) <= Len(Wire[c])
      BY PeerTypes
    <3>3. x \in Peer /\ x.read <= x.sent /\ x.sent <= Len(Wire[c])
      BY <3>2, PeerTypes DEF Peer
    <3> HIDE DEF x
    <3> QED BY <1>0, <3>1, <3>3, PeerMoves
  <2>4. ASSUME NEW c \in Conns, NEW how \in {"end", "reset"}, Closes(c, how) PROVE ConnType'
    <3> DEFINE x == [conn[c] EXCEPT !.closed = how]
    <3>1. conn' = [conn EXCEPT ![c] = x]
      BY <1>0, <2>4 DEF Closes, ConnType
    <3>2. x \in Peer /\ x.read <= x.sent /\ x.sent <= Len(Wire[c])
      BY PeerTypes DEF Peer
    <3> HIDE DEF x
    <3> QED BY <1>0, <3>1, <3>2, PeerMoves
  <2> QED BY <1>7, <2>1, <2>2, <2>3, <2>4 DEF WorldQuiet, Signal, Types, EndsInput,
  Arrives, Posts
<1>10. CASE \E s \in Sources : SourceStep(s)
  <2> PICK s \in Sources : SourceStep(s)
    BY <1>10
  <2>1. CASE UNCHANGED conn
    BY <1>k, <2>1
  <2>2. CASE Leave(s)
    BY <1>0, <2>2, LeaveType
  <2>3. ASSUME NEW c \in Conns, Accept(s, c) PROVE ConnType'
    <3> DEFINE full == options.limit > 0 /\ source[s].served >= options.limit
               to == IF full \/ stopping THEN "left" ELSE "open"
               x == [conn[c] EXCEPT !.state = to]
    <3>1. conn' = [conn EXCEPT ![c].state = to]
      BY <2>3 DEF Accept
    <3>2. to \in {"left", "open"}
      OBVIOUS
    <3> HIDE DEF to
    <3>3. conn' = [conn EXCEPT ![c] = x]
      BY <1>0, <3>1 DEF ConnType
    <3>4. x \in Peer /\ x.read <= x.sent /\ x.sent <= Len(Wire[c])
      BY <3>2, PeerTypes DEF Peer
    <3> HIDE DEF x
    <3> QED BY <1>0, <3>3, <3>4, PeerMoves
  <2>4. ASSUME source[s].conn # 0, NEW n \in 1..Len(Wire[source[s].conn]), Read(s, n)
        PROVE ConnType'
    <3>1. PICK c \in Conns : c = source[s].conn
      BY <2>4, SourceTypes
    <3> DEFINE x == [conn[c] EXCEPT !.read = conn[c].read + n]
    <3>2. conn' = [conn EXCEPT ![c].read = conn[c].read + n] /\ conn[c].read + n <= conn[c].sent
      BY <2>4, <3>1 DEF Read
    <3>3. conn' = [conn EXCEPT ![c] = x]
      BY <1>0, <3>2 DEF ConnType
    <3>4. n \in Nat
      BY <3>1, PeerTypes
    <3>5. conn[c].read + n \in Nat
      BY <3>4, PeerTypes
    <3>6. x \in Peer /\ x.read <= x.sent /\ x.sent <= Len(Wire[c])
      BY <3>2, <3>5, PeerTypes DEF Peer
    <3> HIDE DEF x
    <3> QED BY <1>0, <3>3, <3>6, PeerMoves
  <2> QED BY <2>1, <2>2, <2>3, <2>4 DEF SourceStep, AppendSucceeds, AppendFails,
  ReadEnds, Receive, GetLine,
                                        GetLineEnds, PollEnds
<1> QED BY NextCases, <1>1, <1>2, <1>4, <1>5, <1>6, <1>7, <1>8, <1>9, <1>10

(* ... those of the input,                                                  *)
LEMMA InputTypeStep ==
  ASSUME IndInv, Next
  PROVE  InputType'
<1>0. InputType /\ arrived.queue \in Seq(Text) /\ arrived.next \in Nat
      /\ typed.lines \in Seq(Text) /\ typed.next \in Nat \ {0} /\ typed.ended \in BOOLEAN
  BY DEF IndInv, Typed, InputType
<1>k. ASSUME UNCHANGED <<arrived, typed>> PROVE InputType'
  BY <1>0, <1>k DEF InputType
<1>q. ASSUME NEW q \in Seq(Text), NEW n \in Nat, arrived'
               = [queue |-> q, next |-> n], UNCHANGED typed
      PROVE  InputType'
  BY <1>0, <1>q DEF InputType
<1>l. ASSUME NEW l \in Seq(Text), NEW n \in Nat \ {0}, NEW e \in BOOLEAN,
             typed' = [lines |-> l, next |-> n, ended |-> e], UNCHANGED arrived
      PROVE  InputType'
  BY <1>0, <1>l DEF InputType
<1>a. arrived = [queue |-> arrived.queue, next |-> arrived.next]
  BY <1>0 DEF InputType
<1>t. typed = [lines |-> typed.lines, next |-> typed.next, ended |-> typed.ended]
  BY <1>0 DEF InputType
<1>1. CASE MainQuiet
  BY <1>1, <1>k, MainFrame DEF streamVars
<1>2. CASE StartSources \/ StopEngine
  BY <1>2, <1>k DEF StartSources, StopEngine, streamVars
<1>4. CASE Return \/ MainThrows \/ Crash
  <2>1. arrived' = [arrived EXCEPT !.queue = <<>>] /\ UNCHANGED typed
    BY <1>4, GoneFrame DEF Gone
  <2>2. arrived' = [queue |-> <<>>, next |-> arrived.next]
    BY <1>a, <2>1
  <2> QED BY <1>0, <1>q, EmptyTexts, <2>1, <2>2
<1>5. CASE Launch
  BY <1>5, <1>k DEF Launch
<1>6. CASE Scan
  BY <1>6, <1>k, ScanFrame DEF streamVars
<1>8. CASE Flush
  BY <1>8, <1>k, FlushFrame DEF streamVars
<1>9. CASE \E r \in Requests : Answer(r)
  BY <1>9, <1>k, AnswerFrame DEF streamVars
<1>7. CASE WorldQuiet
  <2>1. CASE UNCHANGED <<arrived, typed>>
    BY <1>k, <2>1
  <2>2. ASSUME NEW k \in DOMAIN Datagram, Arrives(k) PROVE InputType'
    <3>1. Datagram[k] \in Text /\ k \in Nat
      BY AgentAssumption
    <3>2. arrived' = [queue |-> Append(arrived.queue, Datagram[k]), next |-> k + 1]
          /\ UNCHANGED typed
      BY <2>2 DEF Arrives
    <3>3. Append(arrived.queue, Datagram[k]) \in Seq(Text) /\ k + 1 \in Nat
      BY <1>0, <3>1, AppendProperties
    <3> QED BY <1>q, <3>2, <3>3
  <2>3. CASE Types
    <3>1. typed.next \in DOMAIN Input
      BY <1>0, <2>3, AgentAssumption DEF Types
    <3>2. Input[typed.next] \in Text
      BY <3>1, AgentAssumption
    <3>3. typed' = [typed EXCEPT !.lines = Append(typed.lines, Input[typed.next]),
            !.next = typed.next + 1]
          /\ UNCHANGED arrived
      BY <2>3 DEF Types
    <3>4. typed' = [lines |-> Append(typed.lines, Input[typed.next]), next |-> typed.next + 1,
                    ended |-> typed.ended]
      BY <1>t, <3>3
    <3>5. Append(typed.lines, Input[typed.next]) \in Seq(Text) /\ typed.next + 1 \in Nat \ {0}
      BY <1>0, <3>2, AppendProperties
    <3> QED BY <1>0, <1>l, <3>3, <3>4, <3>5
  <2>4. CASE EndsInput
    <3>1. typed' = [typed EXCEPT !.ended = TRUE] /\ UNCHANGED arrived
      BY <2>4 DEF EndsInput
    <3>2. typed' = [lines |-> typed.lines, next |-> typed.next, ended |-> TRUE]
      BY <1>t, <3>1
    <3> QED BY <1>0, <1>l, <3>1, <3>2
  <2> QED BY <1>7, <2>1, <2>2, <2>3, <2>4 DEF WorldQuiet, Signal, Connects, Sends,
  Closes, Posts
<1>10. CASE \E s \in Sources : SourceStep(s)
  <2>1. CASE UNCHANGED <<arrived, typed>>
    BY <1>k, <2>1
  <2>2. CASE Receive
    <3>1. arrived' = [arrived EXCEPT !.queue = Tail(arrived.queue)] /\ UNCHANGED typed
          /\ arrived.queue # <<>>
      BY <2>2 DEF Receive
    <3>2. arrived' = [queue |-> Tail(arrived.queue), next |-> arrived.next]
      BY <1>a, <3>1
    <3>3. Tail(arrived.queue) \in Seq(Text)
      BY <1>0, <3>1, HeadTailProperties
    <3> QED BY <1>0, <1>q, <3>1, <3>2, <3>3
  <2>3. CASE GetLine
    <3>1. typed' = [typed EXCEPT !.lines = Tail(typed.lines)] /\ UNCHANGED arrived
          /\ typed.lines # <<>>
      BY <2>3 DEF GetLine
    <3>2. typed' = [lines |-> Tail(typed.lines), next |-> typed.next, ended |-> typed.ended]
      BY <1>t, <3>1
    <3>3. Tail(typed.lines) \in Seq(Text)
      BY <1>0, <3>1, HeadTailProperties
    <3> QED BY <1>0, <1>l, <3>1, <3>2, <3>3
  <2> QED BY <1>10, <2>1, <2>2, <2>3 DEF SourceStep, AppendSucceeds, AppendFails, Accept,
  Read, ReadEnds,
                                         GetLineEnds, PollEnds
<1> QED BY NextCases, <1>1, <1>2, <1>4, <1>5, <1>6, <1>7, <1>8, <1>9, <1>10

(* ... and those of the requests.                                           *)
LEMMA RequestTypeStep ==
  ASSUME IndInv, Next
  PROVE  RequestType'
<1>0. RequestType /\ starts \in Nat /\ options.bodies \subseteq Body
  BY OptionTypes DEF IndInv, Typed, Counters, Control
<1>k. ASSUME UNCHANGED request PROVE RequestType'
  BY <1>0, <1>k DEF RequestType
<1>1. CASE MainQuiet
  BY <1>1, <1>k, MainFrame
<1>2. CASE StartSources \/ StopEngine
  BY <1>2, <1>k DEF StartSources, StopEngine
<1>4. CASE Return \/ MainThrows \/ Crash
  <2>1. request' = [r \in Requests |-> IF request[r].at \in {"sent", "append"}
                                         THEN [request[r] EXCEPT !.at = "lost"] ELSE request[r]]
    BY <1>4, GoneFrame DEF Gone
  <2>2. \A r \in Requests : request[r] \in Asked /\ [request[r] EXCEPT !.at = "lost"] \in Asked
    BY <1>0 DEF RequestType, Asked
  <2>3. \A r \in Requests : (IF request[r].at \in {"sent", "append"}
                               THEN [request[r] EXCEPT !.at = "lost"] ELSE request[r]) \in Asked
    BY <2>2
  <2> QED BY <2>1, <2>3 DEF RequestType
<1>5. CASE Launch
  BY <1>5, <1>k DEF Launch
<1>6. CASE Scan
  BY <1>6, <1>k, ScanFrame
<1>8. CASE Flush
  BY <1>8, <1>k, FlushFrame
<1>9. CASE \E r \in Requests : Answer(r)
  <2> PICK r \in Requests : Answer(r)
    BY <1>9
  <2>1. PICK a \in {"append", "200", "400", "413", "503"} : request' = [request EXCEPT ![r].at = a]
    BY DEF Answer, Handle, IngestSucceeds, IngestFails
  <2>2. [request[r] EXCEPT !.at = a] \in Asked
    BY <1>0 DEF RequestType, Asked
  <2>3. request' = [request EXCEPT ![r] = [request[r] EXCEPT !.at = a]]
    BY <1>0, <2>1 DEF RequestType
  <2> QED BY <1>0, <2>2, <2>3 DEF RequestType
<1>7. CASE WorldQuiet
  <2>1. CASE UNCHANGED request
    BY <1>k, <2>1
  <2>2. ASSUME NEW r \in Requests, NEW body \in options.bodies, Posts(r, body) PROVE RequestType'
    <3>1. [at |-> "sent", body |-> body, run |-> starts] \in Asked
      BY <1>0 DEF Asked
    <3>2. request' = [request EXCEPT ![r] = [at |-> "sent", body |-> body, run |-> starts]]
      BY <2>2 DEF Posts
    <3> QED BY <1>0, <3>1, <3>2 DEF RequestType
  <2> QED BY <1>7, <2>1, <2>2 DEF WorldQuiet, Signal, Types, EndsInput, Connects, Sends,
  Closes, Arrives
<1>10. CASE \E s \in Sources : SourceStep(s)
  BY <1>10, <1>k, SourceFrame
<1> QED BY NextCases, <1>1, <1>2, <1>4, <1>5, <1>6, <1>7, <1>8, <1>9, <1>10

-----------------------------------------------------------------------------
(* main's places in order.                                                  *)
LEMMA PastPlaces ==
  ASSUME NEW s \in Sources
  PROVE  /\ s \notin NotStarted \cup Past[s] /\ Following[s] \in Past[s]
         /\ {"engine", "return"} \subseteq Past[s]
         /\ \A p \in {"load", "check", "store", "remove", "scan", "wait", "scanners", "file"} :
              p \notin NotStarted \cup Past[s]
         /\ \A t \in Sources : t # s /\ Following[t] \in Past[s] => t \in Past[s]
         /\ "http" \in Past[s] /\ Following[s] \notin NotStarted
BY DEF Past, NotStarted, Stopped, Sources, Following

(* main waits for every source: none runs again past its wait.              *)
LEMMA AwaitedStep ==
  ASSUME IndInv, Next
  PROVE  Awaited'
<1>0. Awaited /\ SourceType
  BY DEF IndInv, Typed
<1>k. ASSUME UNCHANGED <<main, source>> PROVE Awaited'
  BY <1>0, <1>k DEF Awaited
<1>1. CASE MainQuiet
  <2>1. UNCHANGED source
    BY <1>1, MainFrame DEF streamVars
  <2> SUFFICES ASSUME NEW s \in Sources, main' \in NotStarted \cup Past[s]
               PROVE  source[s].at = "done"
    BY <2>1 DEF Awaited
  <2>2. CASE \E t \in Sources : AwaitSource(t)
    <3> PICK t \in Sources : AwaitSource(t)
      BY <2>2
    <3>1. main = t /\ main' = Following[t] /\ source[t].at = "done"
      BY DEF AwaitSource, Go
    <3>2. t = s \/ t \in Past[s]
      BY <3>1, PastPlaces
    <3> QED BY <1>0, <3>1, <3>2 DEF Awaited
  <2>3. CASE main' \in {"load", "check", "store", "remove", "scan", "wait", "scanners", "file"}
    BY <2>3, PastPlaces
  <2>4. CASE main \in NotStarted \cup Past[s]
    BY <1>0, <2>4 DEF Awaited
  <2>5. CASE StartEngine \/ Listen
    BY <2>4, <2>5 DEF StartEngine, Listen, Go, NotStarted
  <2>6. CASE StopHttp
    BY <2>4, <2>6, PastPlaces DEF StopHttp, Go
  <2> QED BY <1>1, <2>2, <2>3, <2>5, <2>6 DEF MainQuiet, LoadLegacy, CheckPending,
  StorePending, RemoveLegacy,
             StartScanners, StopAsked, AwaitScanners, Go
<1>2. CASE StartSources
  <2>1. main' \in {"load", "wait"}
    BY <1>2 DEF StartSources, Go
  <2> QED BY <2>1, PastPlaces DEF Awaited
<1>3. CASE StopEngine
  <2>1. main = "engine" /\ main' = "return" /\ UNCHANGED source
    BY <1>3 DEF StopEngine, Go, streamVars
  <2> QED BY <1>0, <2>1, PastPlaces DEF Awaited
<1>4. CASE Return \/ MainThrows \/ Crash
  <2>1. source' = [s \in Sources |-> Off]
    BY <1>4, GoneFrame DEF Gone
  <2> QED BY <2>1 DEF Awaited, Off
<1>5. CASE Launch
  <2>1. main \in NotStarted /\ UNCHANGED source
    BY <1>5 DEF Launch, Running, NotStarted, Outside
  <2> QED BY <1>0, <2>1 DEF Awaited
<1>6. CASE Scan
  BY <1>6, <1>k, ScanFrame DEF streamVars
<1>7. CASE WorldQuiet
  BY <1>7, <1>k, WorldFrame
<1>8. CASE Flush
  BY <1>8, <1>k, FlushFrame DEF streamVars
<1>9. CASE \E r \in Requests : Answer(r)
  BY <1>9, <1>k, AnswerFrame DEF streamVars
<1>10. CASE \E s \in Sources : SourceStep(s)
  <2> PICK s \in Sources : SourceStep(s)
    BY <1>10
  <2>1. UNCHANGED main
    BY SourceFrame
  <2>2. source[s].at # "done"
    BY DEF SourceStep, AppendSucceeds, AppendFails, Accept, Read, ReadEnds, Receive,
       GetLine, GetLineEnds, PollEnds
  <2>3. \A t \in Sources : t # s => source'[t] = source[t]
    <3>0. source \in [Sources -> Served]
      BY <1>0 DEF SourceType
    <3>1. CASE AppendSucceeds(s) \/ AppendFails(s)
      BY <3>0, <3>1 DEF AppendSucceeds, AppendFails
    <3>2. CASE (\E c \in Conns : Accept(s, c)) \/ ReadEnds(s)
      BY <3>0, <3>2 DEF Accept, ReadEnds
    <3>3. ASSUME NEW n, Read(s, n) PROVE \A t \in Sources : t # s => source'[t] = source[t]
      BY <3>0, <3>3 DEF Read
    <3>4. CASE s = "udp" /\ Receive
      BY <3>0, <3>4 DEF Receive
    <3>5. CASE s = "stdin" /\ (GetLine \/ GetLineEnds)
      BY <3>0, <3>5 DEF GetLine, GetLineEnds
    <3>6. CASE s = "file" /\ PollEnds
      BY <3>0, <3>6 DEF PollEnds
    <3> QED BY <3>1, <3>2, <3>3, <3>4, <3>5, <3>6 DEF SourceStep
  <2> QED BY <1>0, <2>1, <2>2, <2>3 DEF Awaited
<1> QED BY NextCases, <1>1, <1>2, <1>3, <1>4, <1>5, <1>6, <1>7, <1>8, <1>9, <1>10

(* Only main starts and stops the engine.                                   *)
LEMMA EngineStep ==
  ASSUME IndInv, Next
  PROVE  EngineOK'
<1>0. EngineOK /\ main \in Places
  BY DEF IndInv, Typed, Control
<1>k. ASSUME UNCHANGED <<main, engine>> PROVE EngineOK'
  BY <1>0, <1>k DEF EngineOK
<1>m. ASSUME main \notin Stopped \cup {"boot", "return"},
               main' \notin Stopped \cup {"boot", "return"}, UNCHANGED engine
      PROVE  EngineOK'
  BY <1>0, <1>m DEF EngineOK
<1>1. CASE MainQuiet
  <2>1. CASE StartEngine
    BY <2>1 DEF StartEngine, Go, EngineOK, Stopped
  <2>2. CASE \E s \in Sources : AwaitSource(s)
    <3> PICK s \in Sources : AwaitSource(s)
      BY <2>2
    <3>1. main = s /\ main' = Following[s] /\ UNCHANGED engine
      BY DEF AwaitSource, Go
    <3>2. s \notin Stopped \cup {"boot", "return"}
          /\ Following[s] \notin Stopped \cup {"boot", "return"}
      BY DEF Sources, Following, Stopped
    <3> QED BY <1>m, <3>1, <3>2
  <2> QED BY <1>1, <1>m, <2>1, <2>2 DEF MainQuiet, Listen, LoadLegacy, CheckPending,
  StorePending, RemoveLegacy,
             StartScanners, StopAsked, AwaitScanners, StopHttp, Go, Stopped
<1>2. CASE StartSources
  BY <1>2, <1>m DEF StartSources, Go, Stopped
<1>3. CASE StopEngine
  BY <1>3 DEF StopEngine, Go, EngineOK, Stopped
<1>4. CASE Return \/ MainThrows \/ Crash
  BY <1>4, GoneFrame DEF Gone, EngineOK
<1>5. CASE Launch
  BY <1>0, <1>5 DEF Launch, Running, Outside, EngineOK
<1>6. CASE Scan
  BY <1>6, <1>k, ScanFrame
<1>7. CASE WorldQuiet
  BY <1>7, <1>k, WorldFrame
<1>8. CASE Flush
  BY <1>8, <1>k, FlushFrame
<1>9. CASE \E r \in Requests : Answer(r)
  BY <1>9, <1>k, AnswerFrame
<1>10. CASE \E s \in Sources : SourceStep(s)
  BY <1>10, <1>k, SourceFrame
<1> QED BY NextCases, <1>1, <1>2, <1>3, <1>4, <1>5, <1>6, <1>7, <1>8, <1>9, <1>10

(* The HTTP server stops before the engine does.                            *)
LEMMA RequestsStep ==
  ASSUME IndInv, Next
  PROVE  RequestsOK'
<1>0. RequestsOK /\ starts \in Nat /\ RequestType
  BY DEF IndInv, Typed, Counters
<1>r. \A r \in Requests : request[r].run \in Nat
  BY <1>0 DEF RequestType, Asked
<1>k. ASSUME UNCHANGED <<main, request, starts>> PROVE RequestsOK'
  BY <1>0, <1>k DEF RequestsOK
<1>m. ASSUME UNCHANGED <<request, starts>>, main' \notin Stopped \cup {"boot", "listen",
                         "engine", "return"}
      PROVE  RequestsOK'
  BY <1>0, <1>m DEF RequestsOK
<1>p. ASSUME UNCHANGED <<request, starts>>, main \in Stopped \cup {"boot", "listen",
                         "engine", "return"}
      PROVE  RequestsOK'
  BY <1>0, <1>p DEF RequestsOK
<1>1. CASE MainQuiet
  <2>1. UNCHANGED <<request, starts>>
    BY <1>1, MainFrame DEF history
  <2>2. CASE \E s \in Sources : AwaitSource(s)
    <3> PICK s \in Sources : AwaitSource(s)
      BY <2>2
    <3>1. main' = Following[s]
      BY DEF AwaitSource, Go
    <3>2. Following[s] \notin Stopped \cup {"boot", "listen", "engine", "return"}
      BY DEF Sources, Following, Stopped
    <3> QED BY <1>m, <2>1, <3>1, <3>2
  <2>3. CASE StartEngine
    BY <1>p, <2>1, <2>3 DEF StartEngine, Go
  <2>4. CASE StopHttp
    <3>1. \A r \in Requests : request[r].at \notin {"sent", "append"}
      BY <2>4 DEF StopHttp
    <3> QED BY <1>0, <2>1, <3>1 DEF RequestsOK
  <2> QED BY <1>1, <1>m, <2>1, <2>2, <2>3, <2>4 DEF MainQuiet, Listen, LoadLegacy,
  CheckPending, StorePending,
             RemoveLegacy, StartScanners, StopAsked, AwaitScanners, Go, Stopped
<1>2. CASE StartSources
  BY <1>2, <1>m DEF StartSources, Go, Stopped, history
<1>3. CASE StopEngine
  BY <1>3, <1>p DEF StopEngine, Go, history
<1>4. CASE Return \/ MainThrows \/ Crash
  <2>1. request' = [r \in Requests |-> IF request[r].at \in {"sent", "append"}
                                         THEN [request[r] EXCEPT !.at = "lost"] ELSE request[r]]
        /\ UNCHANGED starts
    BY <1>4, GoneFrame DEF Gone
  <2>2. \A r \in Requests : request[r] \in Asked
    BY <1>0 DEF RequestType
  <2>3. \A r \in Requests : request'[r].at \notin {"sent", "append"}
        /\ request'[r].run = request[r].run
    BY <2>1, <2>2 DEF Asked
  <2> QED BY <1>0, <2>1, <2>3 DEF RequestsOK
<1>5. CASE Launch
  <2>1. main \in Stopped /\ starts' = starts + 1 /\ UNCHANGED request
    BY <1>5 DEF Launch, Running
  <2>2. \A r \in Requests : request[r].at \notin {"sent", "append"} /\ request[r].run <= starts + 1
    BY <1>0, <1>r, <2>1 DEF RequestsOK
  <2> QED BY <2>1, <2>2 DEF RequestsOK
<1>6. CASE Scan
  BY <1>6, <1>k, ScanFrame DEF history
<1>8. CASE Flush
  BY <1>8, <1>k, FlushFrame DEF history
<1>9. CASE \E r \in Requests : Answer(r)
  <2> PICK r \in Requests : Answer(r)
    BY <1>9
  <2>1. UNCHANGED <<main, starts>>
    BY AnswerFrame
  <2>2. PICK a : request' = [request EXCEPT ![r].at = a]
    BY DEF Answer, Handle, IngestSucceeds, IngestFails
  <2>3. request[r].at \in {"sent", "append"}
    BY DEF Answer, Handle, IngestSucceeds, IngestFails
  <2>4. \A q \in Requests : request'[q].run = request[q].run /\ (q # r => request'[q] = request[q])
    BY <1>0, <2>2 DEF RequestType, Asked
  <2> QED BY <1>0, <2>1, <2>3, <2>4 DEF RequestsOK
<1>7. CASE WorldQuiet
  <2>1. UNCHANGED <<main, starts>>
    BY <1>7, WorldFrame DEF history
  <2>2. CASE UNCHANGED request
    BY <1>k, <2>1, <2>2
  <2>3. ASSUME NEW r \in Requests, NEW body, Posts(r, body) PROVE RequestsOK'
    <3>1. request' = [request EXCEPT ![r] = [at |-> "sent", body |-> body, run |-> starts]]
          /\ main \notin Stopped \cup {"boot", "listen", "engine", "return"}
      BY <2>3 DEF Posts, Running
    <3>2. \A q \in Requests : request'[q].run = request[q].run \/ request'[q].run = starts
      BY <1>0, <3>1 DEF RequestType
    <3> QED BY <1>0, <2>1, <3>1, <3>2 DEF RequestsOK
  <2> QED BY <1>7, <2>2, <2>3 DEF WorldQuiet, Signal, Types, EndsInput, Connects, Sends,
  Closes, Arrives
<1>10. CASE \E s \in Sources : SourceStep(s)
  BY <1>10, <1>k, SourceFrame
<1> QED BY NextCases, <1>1, <1>2, <1>3, <1>4, <1>5, <1>6, <1>7, <1>8, <1>9, <1>10

(* Every step of a migration, wherever the process dies, keeps the batch in *)
(* one of the two files until it is delivered.                              *)
LEMMA MigrationStep ==
  ASSUME IndInv, Next
  PROVE  MigrationOK'
<1>0. /\ MigrationOK /\ main \in Places /\ options.sink \in BOOLEAN
      /\ {legacy, pending, delivered, torn} \subseteq BOOLEAN
      /\ scanner \in {"off", "idle", "sent", "done"}
  BY OptionTypes DEF IndInv, Typed, Control
<1>k. ASSUME UNCHANGED <<options, main, scanner, legacy, pending, delivered,
                         torn>> PROVE MigrationOK'
  BY <1>0, <1>k DEF MigrationOK
<1>g. Sources \cap (Stopped \cup {"boot", "listen", "sources", "load", "check", "store", "remove",
        "scan"}) = {}
  BY DEF Sources, Stopped
<1>1. CASE MainQuiet
  <2>1. UNCHANGED <<options, delivered, torn>>
    BY <1>1, MainFrame DEF history
  <2>2. CASE StartEngine \/ Listen
    BY <1>0, <2>1, <2>2 DEF StartEngine, Listen, Go, MigrationOK, Scanning, Sources
  <2>3. CASE LoadLegacy
    BY <1>0, <2>1, <2>3 DEF LoadLegacy, Go, MigrationOK, Scanning, Sources
  <2>4. CASE CheckPending
    BY <1>0, <2>1, <2>4 DEF CheckPending, Go, MigrationOK, Scanning, Sources
  <2>5. CASE StorePending
    BY <1>0, <2>1, <2>5 DEF StorePending, Go, MigrationOK, Scanning, Sources
  <2>6. CASE RemoveLegacy
    BY <1>0, <2>1, <2>6 DEF RemoveLegacy, Go, MigrationOK, Scanning, Sources
  <2>7. CASE StartScanners
    BY <1>0, <2>1, <2>7 DEF StartScanners, Go, MigrationOK, Scanning, Sources
  <2>8. CASE StopAsked \/ AwaitScanners \/ StopHttp
    BY <1>0, <2>1, <2>8 DEF StopAsked, AwaitScanners, StopHttp, Go, MigrationOK,
       Scanning, Sources
  <2>9. CASE \E s \in Sources : AwaitSource(s)
    <3> PICK s \in Sources : AwaitSource(s)
      BY <2>9
    <3>1. main = s /\ main' = Following[s] /\ UNCHANGED <<scanner, legacy, pending>>
      BY DEF AwaitSource, Go
    <3>2. s \in Scanning /\ Following[s] \in Scanning
      BY DEF Scanning, Following, Sources
    <3>3. main' \notin {"remove", "check", "store", "failed_migration"} /\ main # "remove"
      BY <3>1, <3>2, <1>g DEF Scanning, Following, Sources
    <3> QED BY <1>0, <2>1, <3>1, <3>2, <3>3 DEF MigrationOK
  <2> QED BY <1>1, <2>2, <2>3, <2>4, <2>5, <2>6, <2>7, <2>8, <2>9 DEF MainQuiet
<1>2. CASE StartSources
  BY <1>0, <1>2 DEF StartSources, Go, MigrationOK, Scanning, Sources, deliveryVars,
     history
<1>3. CASE StopEngine
  BY <1>0, <1>3 DEF StopEngine, Go, MigrationOK, Scanning, Sources, deliveryVars, history
<1>4. CASE Return \/ MainThrows \/ Crash
  <2>1. /\ scanner' = "off" /\ UNCHANGED <<options, legacy, pending, delivered>>
    BY <1>4, GoneFrame DEF Gone
  <2>2. CASE Return
    BY <1>0, <2>1, <2>2 DEF Return, Go, MigrationOK, Scanning, Sources
  <2>3. CASE MainThrows
    <3>1. CASE pending /\ Go("check", "failed_migration")
      BY <1>0, <2>1, <2>3, <3>1 DEF MainThrows, Go, MigrationOK, Scanning, Sources
    <3>2. ASSUME NEW s \in Sources, Go(s, "failed") PROVE MigrationOK'
      <4>1. main' = "failed" /\ main # "remove" /\ UNCHANGED torn
        BY <1>g, <2>3, <3>2 DEF Go, MainThrows
      <4> QED BY <1>0, <2>1, <4>1 DEF MigrationOK, Scanning, Sources
    <3> QED BY <2>3, <3>1, <3>2 DEF MainThrows
  <2>4. CASE Crash
    BY <1>0, <2>1, <2>4 DEF Crash, MigrationOK, Scanning, Sources
  <2> QED BY <1>4, <2>2, <2>3, <2>4
<1>5. CASE Launch
  <2>1. main \in Stopped /\ main' = "boot" /\ UNCHANGED <<options, deliveryVars, torn>>
    BY <1>5 DEF Launch, Running, Outside
  <2> QED BY <1>0, <2>1 DEF MigrationOK, Scanning, Sources, Stopped, deliveryVars
<1>6. CASE Scan
  <2>1. UNCHANGED <<options, main, legacy, torn>>
    BY <1>6, ScanFrame DEF history
  <2>2. CASE Deliver
    BY <1>0, <2>1, <2>2 DEF Deliver, MigrationOK
  <2>3. CASE RemovePending
    <3>1. main \in Scanning /\ delivered /\ ~legacy
      BY <1>0, <2>3 DEF RemovePending, MigrationOK
    <3>2. main \notin {"remove", "check", "store"}
      BY <3>1, <1>0 DEF MigrationOK
    <3> QED BY <1>0, <2>1, <2>3, <3>1, <3>2 DEF RemovePending, MigrationOK
  <2>4. CASE ScannerEnds
    BY <1>0, <2>1, <2>4 DEF ScannerEnds, MigrationOK
  <2> QED BY <1>6, <2>2, <2>3, <2>4 DEF Scan
<1>7. CASE WorldQuiet
  BY <1>7, <1>k, WorldFrame DEF deliveryVars, history
<1>8. CASE Flush
  BY <1>8, <1>k, FlushFrame DEF deliveryVars, history
<1>9. CASE \E r \in Requests : Answer(r)
  BY <1>9, <1>k, AnswerFrame DEF deliveryVars
<1>10. CASE \E s \in Sources : SourceStep(s)
  BY <1>10, <1>k, SourceFrame DEF deliveryVars
<1> QED BY NextCases, <1>1, <1>2, <1>3, <1>4, <1>5, <1>6, <1>7, <1>8, <1>9, <1>10

-----------------------------------------------------------------------------
(* Appending to both keeps the end.                                         *)
LEMMA EndsWithMore ==
  ASSUME NEW t \in Seq(Text), NEW s \in Seq(Text), NEW u \in Seq(Text), EndsWith(t, s)
  PROVE  EndsWith(t \o u, s \o u)
<1>1. /\ Len(t) \in Nat /\ Len(s) \in Nat /\ Len(u) \in Nat /\ Len(s) <= Len(t)
      /\ Len(t \o u) = Len(t) + Len(u) /\ Len(s \o u) = Len(s) + Len(u)
  BY ConcatProperties DEF EndsWith
<1>2. ASSUME NEW i \in 1..(Len(s) + Len(u))
      PROVE  (s \o u)[i] = (t \o u)[Len(t) + Len(u) - (Len(s) + Len(u)) + i]
  <2> DEFINE j == Len(t) - Len(s) + i
  <2>1. Len(t) + Len(u) - (Len(s) + Len(u)) + i = j /\ j \in 1..(Len(t) + Len(u))
    BY <1>1
  <2>2. CASE i <= Len(s)
    <3>1. i \in 1..Len(s) /\ j <= Len(t)
      BY <1>1, <2>2
    <3>2. (s \o u)[i] = s[i] /\ (t \o u)[j] = t[j]
      BY <1>1, <2>1, <3>1, ConcatProperties
    <3> QED BY <2>1, <3>1, <3>2 DEF EndsWith
  <2>3. CASE ~ (i <= Len(s))
    <3>1. ~ (j <= Len(t)) /\ j - Len(t) = i - Len(s)
      BY <1>1, <2>3
    <3>2. (s \o u)[i] = u[i - Len(s)] /\ (t \o u)[j] = u[j - Len(t)]
      BY <1>1, <2>1, <2>3, <3>1, ConcatProperties
    <3> QED BY <2>1, <3>1, <3>2
  <2> QED BY <2>2, <2>3
<1>3. Len(s) + Len(u) <= Len(t) + Len(u)
  BY <1>1
<1> QED BY <1>1, <1>2, <1>3 DEF EndsWith

(* A flush, which moves queued records to the log, keeps the end.           *)
LEMMA EndsWithSuffix ==
  ASSUME NEW t \in Seq(Text), NEW s \in Seq(Text), EndsWith(t, s)
  PROVE  IsSuffix(s, t) /\ ToSet(s) \subseteq ToSet(t)
<1>1. Len(t) \in Nat /\ Len(s) \in Nat /\ Len(s) <= Len(t)
  BY DEF EndsWith
<1>2. ToSet(s) \subseteq ToSet(t)
  <2>1. ASSUME NEW i \in DOMAIN s PROVE s[i] \in ToSet(t)
    <3>1. i \in 1..Len(s) /\ Len(t) - Len(s) + i \in 1..Len(t)
      BY <1>1
    <3>2. s[i] = t[Len(t) - Len(s) + i]
      BY <3>1 DEF EndsWith
    <3> QED BY <3>1, <3>2 DEF ToSet
  <2> QED BY <2>1 DEF ToSet
<1>3. /\ Reverse(s) = [i \in 1..Len(s) |-> s[Len(s) - i + 1]]
         /\ Reverse(t) = [i \in 1..Len(t) |-> t[Len(t) - i + 1]]
  BY DEF Reverse
<1>4. Reverse(s) \in Seq(Text) /\ Len(Reverse(s)) = Len(s) /\ Reverse(t) \in Seq(Text)
      /\ Len(Reverse(t)) = Len(t)
  <2>1. \A i \in 1..Len(s) : s[Len(s) - i + 1] \in Text
    BY <1>1
  <2>2. \A i \in 1..Len(t) : t[Len(t) - i + 1] \in Text
    BY <1>1
  <2> QED BY <1>1, <1>3, <2>1, <2>2
<1>5. \A i \in 1..Len(s) : Reverse(s)[i] = Reverse(t)[i]
  <2> TAKE i \in 1..Len(s)
  <2>1. Len(s) - i + 1 \in 1..Len(s) /\ i \in 1..Len(t)
        /\ Len(t) - Len(s) + (Len(s) - i + 1) = Len(t) - i + 1
    BY <1>1
  <2>2. s[Len(s) - i + 1] = t[Len(t) - Len(s) + (Len(s) - i + 1)]
    BY <2>1 DEF EndsWith
  <2> QED BY <1>3, <2>1, <2>2
<1>6. SubSeq(Reverse(s), 1, Len(s)) = SubSeq(Reverse(t), 1, Len(s))
  <2> DEFINE a == Reverse(s)
             b == Reverse(t)
             n == Len(s)
  <2>1. a \in Seq(Text) /\ b \in Seq(Text) /\ n \in Nat /\ n <= Len(a) /\ n <= Len(b)
        /\ \A i \in 1..n : a[i] = b[i]
    BY <1>1, <1>4, <1>5
  <2> HIDE DEF a, b, n
  <2>2. SubSeq(a, 1, n) = [i \in 1..n |-> a[i]] /\ SubSeq(b, 1, n) = [i \in 1..n |-> b[i]]
    BY <2>1
  <2>3. SubSeq(a, 1, n) = SubSeq(b, 1, n)
    BY <2>1, <2>2
  <2> QED BY <2>3 DEF a, b, n
<1> QED BY <1>1, <1>2, <1>4, <1>6 DEF IsSuffix, IsPrefix

(* Records are not lost by appending more.                                  *)
LEMMA ToSetMore ==
  ASSUME NEW s \in Seq(Text), NEW u \in Seq(Text)
  PROVE  ToSet(s) \subseteq ToSet(s \o u) /\ ToSet(u) \subseteq ToSet(s \o u)
<1>1. Len(s) \in Nat /\ Len(u) \in Nat /\ s \o u \in Seq(Text) /\ Len(s \o u) = Len(s) + Len(u)
  BY ConcatProperties
<1>2. ASSUME NEW i \in 1..Len(s) PROVE s[i] \in ToSet(s \o u)
  <2>1. i \in 1..(Len(s) + Len(u)) /\ i <= Len(s)
    BY <1>1
  <2>2. (s \o u)[i] = s[i]
    BY <2>1, ConcatProperties
  <2> QED BY <1>1, <2>1, <2>2 DEF ToSet
<1>3. ASSUME NEW i \in 1..Len(u) PROVE u[i] \in ToSet(s \o u)
  <2>1. Len(s) + i \in 1..(Len(s) + Len(u)) /\ ~ (Len(s) + i <= Len(s)) /\ Len(s) + i - Len(s) = i
    BY <1>1
  <2>2. (s \o u)[Len(s) + i] = u[i]
    BY <2>1, ConcatProperties
  <2> QED BY <1>1, <2>1, <2>2 DEF ToSet
<1>4. DOMAIN s = 1..Len(s) /\ DOMAIN u = 1..Len(u)
  OBVIOUS
<1> QED BY <1>2, <1>3, <1>4 DEF ToSet

(* A request that was answered 200 in this run had its messages taken.      *)
Acknowledged == \A r \in Requests : request[r].at = "200"
/\ request[r].run = starts => Messages(r) \subseteq ToSet(taken)

(* append_batch of an engine that is up keeps TakenOK.                      *)
LEMMA TakeStep ==
  ASSUME IndInv, NEW records \in Seq(Text), Take(records), UNCHANGED <<main, stored>>,
         main \notin Stopped \cup {"boot", "return"}
  PROVE  /\ late' = 0
         /\ main' \notin Stopped => EndsWith(stored' \o queued', taken')
         /\ main' = "exited" => EndsWith(stored', taken')
         /\ main' \in Stopped \cup {"return"} => queued' = <<>>
         /\ taken' = taken \o records
<1>1. engine = "up" /\ late = 0 /\ Records
  BY DEF IndInv, EngineOK, TakenOK, Typed
<1>2. queued' = queued \o records /\ taken' = taken \o records /\ late' = 0
  BY <1>1 DEF Take
<1>3. EndsWith(stored \o queued, taken)
  BY DEF IndInv, TakenOK
<1>4. stored \o queued \in Seq(Text)
      /\ stored \o (queued \o records) = (stored \o queued) \o records
  <2>1. stored \in Seq(Text) /\ queued \in Seq(Text)
    BY <1>1 DEF Records
  <2>2. stored \o queued \in Seq(Text)
    BY <2>1, ConcatProperties
  <2>3. stored \o (queued \o records) = (stored \o queued) \o records
    BY ONLY SMTT(30), <2>1, records \in Seq(Text), ConcatAssociative
  <2> QED BY <2>2, <2>3
<1>5. EndsWith((stored \o queued) \o records, taken \o records)
  BY <1>1, <1>3, <1>4, EndsWithMore DEF Records
<1> QED BY <1>2, <1>4, <1>5 DEF Stopped

(* Every step keeps TakenOK: stop drains the queue, and no source and no    *)
(* request appends after it.                                                *)
LEMMA TakenStep ==
  ASSUME IndInv, Next
  PROVE  TakenOK'
<1>0. /\ TakenOK /\ Records /\ RequestType /\ starts \in Nat
      /\ \A r \in Requests : request[r] \in Asked /\ request[r].run <= starts
  BY DEF IndInv, Typed, Counters, RequestType, RequestsOK
<1>a. Acknowledged
  BY <1>0 DEF TakenOK, Acknowledged
<1>t. /\ late = 0
      /\ main \notin Stopped => EndsWith(stored \o queued, taken)
      /\ main = "exited" => EndsWith(stored, taken)
      /\ main \in Stopped \cup {"return"} => queued = <<>>
  BY <1>0 DEF TakenOK
<1>q. ASSUME UNCHANGED <<request, starts, taken>> PROVE Acknowledged'
  BY <1>a, <1>q DEF Acknowledged, Messages
<1>s. stored \o <<>> = stored /\ stored \in Seq(Text) /\ queued \in Seq(Text) /\ taken \in Seq(Text)
      /\ stored \o queued \in Seq(Text)
  BY <1>0, ConcatEmptySeq, ConcatProperties DEF Records
<1>f. (stored \o queued) \o <<>> = stored \o queued
  BY <1>s, ConcatEmptySeq
<1>k. ASSUME UNCHANGED <<late, stored, queued, taken>>, Acknowledged',
                         main \notin Stopped,
             main' \notin Stopped \cup {"return"}
      PROVE  TakenOK'
  BY <1>t, <1>k DEF TakenOK, Acknowledged, Stopped
<1>u. ASSUME UNCHANGED <<main, late, stored, queued, taken>>, Acknowledged'
      PROVE  TakenOK'
  BY <1>t, <1>u DEF TakenOK, Acknowledged
<1>1. CASE MainQuiet
  <2>1. UNCHANGED <<late, stored, queued, taken>> /\ Acknowledged'
    BY <1>1, <1>q, MainFrame DEF history
  <2>2. main \notin Stopped /\ main' \notin Stopped \cup {"return"}
    <3>1. CASE \E s \in Sources : AwaitSource(s)
      <4> PICK s \in Sources : AwaitSource(s)
        BY <3>1
      <4>1. main = s /\ main' = Following[s]
        BY DEF AwaitSource, Go
      <4>2. s \notin Stopped /\ Following[s] \notin Stopped \cup {"return"}
        BY DEF Sources, Following, Stopped
      <4> QED BY <4>1, <4>2
    <3> QED BY <1>1, <3>1 DEF MainQuiet, StartEngine, Listen, LoadLegacy, CheckPending,
    StorePending,
               RemoveLegacy, StartScanners, StopAsked, AwaitScanners, StopHttp, Go,
               Stopped
  <2> QED BY <1>k, <2>1, <2>2
<1>2. CASE StartSources
  <2>1. UNCHANGED <<late, stored, queued, taken>> /\ Acknowledged'
    BY <1>2, <1>q DEF StartSources, history
  <2>2. main \notin Stopped /\ main' \notin Stopped \cup {"return"}
    BY <1>2 DEF StartSources, Go, Stopped
  <2> QED BY <1>k, <2>1, <2>2
<1>3. CASE StopEngine
  <2>1. /\ main = "engine" /\ main' = "return" /\ stored' = stored \o queued /\ queued' = <<>>
        /\ UNCHANGED <<request, taken, late, starts>>
    BY <1>3 DEF StopEngine, Go, history
  <2>2. EndsWith(stored' \o queued', taken')
    BY <1>f, <1>t, <2>1 DEF Stopped
  <2> QED BY <1>q, <1>t, <2>1, <2>2 DEF TakenOK, Acknowledged
<1>4. CASE Return \/ MainThrows \/ Crash
  <2>1. /\ request' = [r \in Requests |-> IF request[r].at \in {"sent", "append"}
                                            THEN [request[r] EXCEPT !.at = "lost"] ELSE request[r]]
        /\ UNCHANGED <<taken, late, starts,
                       stored>> /\ queued' = <<>> /\ main' \in Stopped
    BY <1>4, GoneFrame DEF Gone
  <2>2. \A r \in Requests : request'[r].at = "200" => request'[r] = request[r]
    BY <1>0, <2>1 DEF Asked
  <2>3. Acknowledged'
    BY <1>a, <2>1, <2>2 DEF Acknowledged, Messages
  <2>4. main' = "exited" => EndsWith(stored', taken')
    <3>1. CASE Return
      <4>1. main = "return"
        BY <3>1 DEF Return, Go
      <4>2. EndsWith(stored \o <<>>, taken)
        BY <1>t, <4>1 DEF Stopped
      <4> QED BY <1>s, <2>1, <4>2
    <3>2. CASE MainThrows \/ Crash
      BY <3>2 DEF MainThrows, Crash, Go
    <3> QED BY <1>4, <3>1, <3>2
  <2> QED BY <1>t, <2>1, <2>3, <2>4 DEF TakenOK, Acknowledged, Stopped
<1>5. CASE Launch
  <2>1. main' = "boot" /\ taken' = <<>> /\ starts' = starts + 1 /\ UNCHANGED <<late,
                                     stored, queued, request>>
    BY <1>5 DEF Launch, Outside
  <2>2. \A r \in Requests : request[r].run # starts + 1
    BY <1>0 DEF Asked
  <2>3. EndsWith(stored \o queued, <<>>)
    <3>1. Len(<<>>) = 0 /\ Len(stored \o queued) \in Nat
      BY <1>s
    <3> QED BY <3>1 DEF EndsWith
  <2> QED BY <1>t, <2>1, <2>2, <2>3 DEF TakenOK, Stopped
<1>6. CASE Scan
  BY <1>6, <1>u, <1>q, ScanFrame DEF history
<1>7. CASE WorldQuiet
  <2>1. UNCHANGED <<main, late, stored, queued, taken, starts>>
    BY <1>7, WorldFrame DEF history
  <2>2. CASE UNCHANGED request
    BY <1>u, <1>q, <2>1, <2>2
  <2>3. ASSUME NEW r \in Requests, NEW body, Posts(r, body) PROVE TakenOK'
    <3>1. request' = [request EXCEPT ![r] = [at |-> "sent", body |-> body, run |-> starts]]
      BY <2>3 DEF Posts
    <3>2. \A q \in Requests : request'[q].at = "200" => request'[q] = request[q]
      BY <1>0, <3>1 DEF RequestType
    <3>3. Acknowledged'
      BY <1>a, <2>1, <3>2 DEF Acknowledged, Messages
    <3> QED BY <1>u, <2>1, <3>3
  <2> QED BY <1>7, <2>2, <2>3 DEF WorldQuiet, Signal, Types, EndsInput, Connects, Sends,
  Closes, Arrives
<1>8. CASE Flush
  <2>1. /\ stored' = stored \o queued /\ queued' = <<>>
        /\ UNCHANGED <<main, request, taken, late, starts>>
    BY <1>8 DEF Flush, history
  <2>2. main \notin Stopped => EndsWith(stored' \o queued', taken)
    BY <1>f, <1>t, <2>1
  <2>3. main # "exited"
    <3>1. queued # <<>>
      BY <1>8 DEF Flush
    <3> QED BY <1>t, <3>1 DEF Stopped
  <2> QED BY <1>q, <1>t, <2>1, <2>2, <2>3 DEF TakenOK, Acknowledged
<1>9. CASE \E r \in Requests : Answer(r)
  <2> PICK r \in Requests : Answer(r)
    BY <1>9
  <2>1. UNCHANGED <<main, stored, starts>>
    BY AnswerFrame
  <2>2. main \notin Stopped \cup {"boot", "return"}
    BY DEF Answer, Handle, IngestSucceeds, IngestFails, IndInv, RequestsOK
  <2>3. CASE IngestSucceeds(r)
    <3> DEFINE records == IngestMessages(request[r].body)
    <3>1. Take(records) /\ request' = [request EXCEPT ![r].at = "200"]
      BY <2>3 DEF IngestSucceeds
    <3>2. records \in Seq(Text)
      BY <1>0, IngestType DEF Asked
    <3>3. Messages(r) = ToSet(records)
      BY DEF Messages
    <3> HIDE DEF records
    <3>4. /\ late' = 0
          /\ main' \notin Stopped => EndsWith(stored' \o queued', taken')
          /\ main' = "exited" => EndsWith(stored', taken')
          /\ main' \in Stopped \cup {"return"} => queued' = <<>>
          /\ taken' = taken \o records
      BY <2>1, <2>2, <3>1, <3>2, TakeStep
    <3>5. ToSet(taken) \subseteq ToSet(taken') /\ Messages(r) \subseteq ToSet(taken')
      BY <1>s, <3>2, <3>3, <3>4, ToSetMore
    <3>6. \A q \in Requests : request'[q].body = request[q].body /\ request'[q].run = request[q].run
                              /\ (q # r => request'[q].at = request[q].at)
      BY <1>0, <3>1 DEF RequestType, Asked
    <3>7. Acknowledged'
      BY <1>a, <2>1, <3>5, <3>6 DEF Acknowledged, Messages
    <3> QED BY <3>4, <3>7 DEF TakenOK, Acknowledged
  <2>4. CASE Handle(r) \/ IngestFails(r)
    <3>1. PICK a \in {"append", "400", "413", "503"} : request' = [request EXCEPT ![r].at = a]
      BY <2>4 DEF Handle, IngestFails
    <3>2. \A q \in Requests : request'[q].at = "200" => request'[q] = request[q]
      BY <1>0, <3>1 DEF RequestType, Asked
    <3>3. UNCHANGED <<queued, taken, late>>
      BY <2>4 DEF Handle, IngestFails
    <3>4. Acknowledged'
      BY <1>a, <2>1, <3>2, <3>3 DEF Acknowledged, Messages
    <3> QED BY <1>u, <2>1, <3>3, <3>4
  <2> QED BY <2>3, <2>4 DEF Answer
<1>10. CASE \E s \in Sources : SourceStep(s)
  <2> PICK s \in Sources : SourceStep(s)
    BY <1>10
  <2>1. UNCHANGED <<main, stored, request, starts>>
    BY SourceFrame
  <2>2. CASE AppendSucceeds(s)
    <3> DEFINE records == Batch(s)
    <3>1. Take(records) /\ source[s].at = "append"
      BY <2>2 DEF AppendSucceeds
    <3>2. records \in Seq(Text)
      BY BatchType
    <3>3. main \notin Stopped \cup {"boot", "return"}
      BY <3>1, PastPlaces DEF IndInv, Awaited, NotStarted
    <3> HIDE DEF records
    <3>4. /\ late' = 0
          /\ main' \notin Stopped => EndsWith(stored' \o queued', taken')
          /\ main' = "exited" => EndsWith(stored', taken')
          /\ main' \in Stopped \cup {"return"} => queued' = <<>>
          /\ taken' = taken \o records
      BY <2>1, <3>1, <3>2, <3>3, TakeStep
    <3>5. ToSet(taken) \subseteq ToSet(taken')
      BY <1>s, <3>2, <3>4, ToSetMore
    <3>6. Acknowledged'
      BY <1>a, <2>1, <3>5 DEF Acknowledged, Messages
    <3> QED BY <3>4, <3>6 DEF TakenOK, Acknowledged
  <2>3. CASE UNCHANGED <<queued, taken, late>>
    BY <1>u, <1>q, <2>1, <2>3
  <2> QED BY <2>2, <2>3 DEF SourceStep, AppendFails, Accept, Read, ReadEnds, Receive,
  GetLine, GetLineEnds,
                            PollEnds, StreamStep
<1> QED BY NextCases, <1>1, <1>2, <1>3, <1>4, <1>5, <1>6, <1>7, <1>8, <1>9, <1>10

(* The process starts with nothing taken and the legacy batch on disk.      *)
LEMMA Start == Init => IndInv
<1> SUFFICES ASSUME Init PROVE IndInv
  OBVIOUS
<1>0. options \in Options /\ options.sink \in BOOLEAN
  BY OptionTypes DEF Init
<1>1. Control
  BY <1>0 DEF Init, Control, Places, Stopped
<1>2. Records /\ Counters
  BY EmptyTexts DEF Init, Records, Counters
<1>3. SourceType
  <2>1. \A s \in Sources : source[s] = Off /\ Fits(s, Off)
    BY <1>0, OffFits DEF Init
  <2> QED BY <2>1 DEF Init, SourceType, Fits
<1>4. ConnType
  <2>1. \A c \in Conns : Len(Wire[c]) \in Nat
    BY AgentAssumption DEF Text
  <2>2. [state |-> "none", sent |-> 0, read |-> 0, closed |-> "no"] \in Peer
    BY DEF Peer
  <2> QED BY <2>1, <2>2 DEF Init, ConnType
<1>5. InputType
  BY EmptyTexts DEF Init, InputType
<1>6. RequestType
  <2>1. NoBody \in Body
    BY EmptyTexts DEF NoBody, Body
  <2>2. [at |-> "none", body |-> NoBody, run |-> 0] \in Asked
    BY <2>1 DEF Asked
  <2> QED BY <2>2 DEF Init, RequestType
<1>7. Awaited
  BY DEF Init, Awaited, Off
<1>8. EngineOK /\ RequestsOK
  BY DEF Init, EngineOK, RequestsOK, Stopped
<1>9. TakenOK
  BY DEF Init, TakenOK, Stopped
<1>10. MigrationOK
  BY <1>0 DEF Init, MigrationOK, Scanning, Sources
<1> QED BY <1>1, <1>2, <1>3, <1>4, <1>5, <1>6, <1>7, <1>8, <1>9, <1>10 DEF IndInv, Typed

(* Nothing happens.                                                         *)
LEMMA Stutter ==
  ASSUME IndInv, UNCHANGED vars
  PROVE  IndInv'
<1>1. UNCHANGED <<options, main, signaled, stopping, engine, queued, stored, source,
                  conn, arrived, typed, request,
                  scanner, legacy, pending, delivered, taken, late, torn, faults,
                  crashes, starts>>
  BY DEF vars, streamVars, deliveryVars, history
<1>2. Control' /\ Records' /\ Counters'
  BY <1>1 DEF IndInv, Typed, Control, Records, Counters
<1>3. SourceType' /\ ConnType' /\ InputType' /\ RequestType'
  BY <1>1 DEF IndInv, Typed, SourceType, Fits, ConnType, InputType, RequestType
<1>4. Awaited' /\ EngineOK' /\ RequestsOK'
  BY <1>1 DEF IndInv, Awaited, EngineOK, RequestsOK
<1>5. TakenOK'
  BY <1>1 DEF IndInv, TakenOK, Messages
<1>6. MigrationOK'
  BY <1>1 DEF IndInv, MigrationOK
<1> QED BY <1>2, <1>3, <1>4, <1>5, <1>6 DEF IndInv, Typed

-----------------------------------------------------------------------------
(* Every state of the agent satisfies the inductive invariant.              *)
THEOREM Invariance == Spec => []IndInv
<1>1. Init => IndInv
  BY Start
<1>2. IndInv /\ [Next]_vars => IndInv'
  <2> SUFFICES ASSUME IndInv, [Next]_vars PROVE IndInv'
    OBVIOUS
  <2>1. CASE Next
    BY <2>1, ControlStep, RecordsStep, CountersStep, SourceTypeStep, ConnTypeStep,
       InputTypeStep, RequestTypeStep,
       AwaitedStep, EngineStep, RequestsStep, TakenStep, MigrationStep DEF IndInv, Typed
  <2>2. CASE UNCHANGED vars
    BY <2>2, Stutter
  <2> QED BY <2>1, <2>2
<1> QED BY <1>1, <1>2, PTL DEF Spec

(* The variables keep their types, the sources their connection and batch   *)
(* limits.                                                                  *)
THEOREM TypeCorrect == Spec => []TypeOK
<1>1. IndInv => TypeOK
  BY TypesGive DEF IndInv
<1> QED BY <1>1, Invariance, PTL

(* The batch that the legacy pending file held is never lost: it is in the  *)
(* legacy file or the pending file until it was delivered, wherever the     *)
(* process dies or throws (agent.cc's migrate_legacy_pending).              *)
THEOREM BatchSurvivesMigration == Spec => []MigrationKeeps
<1>1. IndInv => MigrationKeeps
  BY DEF IndInv, MigrationOK, MigrationKeeps, Scanning
<1> QED BY <1>1, Invariance, PTL

(* When the agent has exited cleanly everything its sources and its HTTP    *)
(* endpoint handed to the engine in that run is on disk, and no source or   *)
(* request found the engine stopped: the order of the waits in the shutdown *)
(* is right.                                                                *)
THEOREM ExitKeepsTaken == Spec => []CleanExit
<1>1. IndInv => CleanExit
  <2> SUFFICES ASSUME IndInv PROVE CleanExit
    OBVIOUS
  <2>1. late = 0
    BY DEF IndInv, TakenOK
  <2>2. ASSUME main = "exited" PROVE IsSuffix(taken, stored) /\ ToSet(taken) \subseteq ToSet(stored)
    BY <2>2, EndsWithSuffix DEF IndInv, TakenOK, Typed, Records
  <2>3. \A r \in Requests : request[r].at = "200"
        /\ request[r].run = starts => Messages(r) \subseteq ToSet(taken)
    BY DEF IndInv, TakenOK
  <2> QED BY <2>1, <2>2, <2>3 DEF CleanExit
<1> QED BY <1>1, Invariance, PTL

-----------------------------------------------------------------------------
(* The number of positions of a set up to one.                              *)
Rank(S, e) == Cardinality({j \in S : j <= e})

(* Of two positions the one with fewer positions up to it comes first.      *)
LEMMA RankOrder ==
  ASSUME NEW m \in Nat, NEW S \in SUBSET (1..m), NEW a \in S, NEW b \in S
  PROVE  Rank(S, a) \in Nat /\ (a < b <=> Rank(S, a) < Rank(S, b))
<1> DEFINE upTo(i) == {j \in S : j <= i}
<1>1. \A j \in S : j \in Nat
  OBVIOUS
<1>2. \A i \in S : upTo(i) \in SUBSET (1..m)
  OBVIOUS
<1>3. \A i \in S : IsFiniteSet(upTo(i)) /\ Cardinality(upTo(i)) \in Nat
  BY <1>2, PartFinite
<1>4. ASSUME a < b PROVE Cardinality(upTo(a)) < Cardinality(upTo(b))
  <2>0. a \in Nat /\ b \in Nat /\ ~ (b <= a) /\ \A j \in S : j <= a => j <= b
    BY <1>1, <1>4
  <2>1. b \notin upTo(a) /\ upTo(a) \cup {b} \subseteq upTo(b)
    <3>1. upTo(a) \subseteq upTo(b)
      BY <2>0
    <3>2. b \in upTo(b) /\ b \notin upTo(a)
      BY <2>0
    <3> QED BY <3>1, <3>2
  <2>2. Cardinality(upTo(a) \cup {b}) = Cardinality(upTo(a)) + 1
    BY <1>3, <2>1, FS_AddElement
  <2>3. Cardinality(upTo(a) \cup {b}) <= Cardinality(upTo(b))
    BY <1>3, <2>1, FS_Subset
  <2> QED BY <1>3, <2>2, <2>3
<1>5. ASSUME ~ (a < b) PROVE ~ (Cardinality(upTo(a)) < Cardinality(upTo(b)))
  <2>0. \A j \in S : j <= b => j <= a
    BY <1>1, <1>5
  <2>1. upTo(b) \subseteq upTo(a)
    BY <2>0
  <2>2. Cardinality(upTo(b)) <= Cardinality(upTo(a))
    BY <1>3, <2>1, FS_Subset
  <2> QED BY <1>3, <2>2
<1> HIDE DEF upTo
<1>6. Cardinality(upTo(a)) \in Nat /\ (a < b <=> Cardinality(upTo(a)) < Cardinality(upTo(b)))
  BY <1>3, <1>4, <1>5
<1> QED BY <1>6 DEF upTo, Rank

(* Line ends have ranks: the k-th has k line ends up to it.                 *)
LEMMA LineEndRank ==
  ASSUME NEW cells \in Text, options \in Options, NEW k \in 1..Count(cells)
  PROVE  LineEnd(cells, k) \in Ends(cells) /\ Rank(Ends(cells), LineEnd(cells, k)) = k
<1>1. /\ Len(cells) \in Nat /\ Ends(cells) \in SUBSET (1..Len(cells))
      /\ Cardinality(Ends(cells)) \in Nat /\ Count(cells) \in Nat
      /\ Count(cells) <= Cardinality(Ends(cells))
  BY EndsProperties, CountProperties DEF Text
<1>2. k \in 1..Cardinality(Ends(cells)) /\ k # 0
  BY <1>1
<1>3. LineEnd(cells, k) = Nth(Ends(cells), k)
  BY <1>2 DEF LineEnd
<1>4. Nth(Ends(cells), k) \in Ends(cells) /\ Rank(Ends(cells), Nth(Ends(cells), k)) = k
  BY ONLY <1>1, <1>2, NthIsMember DEF Rank
<1> QED BY <1>3, <1>4

(* Later line ends are further on, and between one and the next is none.    *)
LEMMA LineEndsRise ==
  ASSUME NEW cells \in Text, options \in Options, NEW k \in 0..Count(cells), NEW l \in 0..Count(cells),
         k < l
  PROVE  LineEnd(cells, k) < LineEnd(cells, l)
<1>1. /\ Len(cells) \in Nat /\ Ends(cells) \in SUBSET (1..Len(cells)) /\ Count(cells) \in Nat
  BY EndsProperties, CountProperties DEF Text
<1>2. l \in 1..Count(cells)
  BY <1>1
<1>3. CASE k = 0
  <2>1. LineEnd(cells, k) = 0
    BY <1>3 DEF LineEnd
  <2>2. LineEnd(cells, l) \in 1..Len(cells)
    BY <1>1, <1>2, LineEndRank
  <2> QED BY <1>1, <2>1, <2>2
<1>4. CASE k # 0
  <2>1. k \in 1..Count(cells)
    BY <1>1, <1>4
  <2>2. LineEnd(cells, k) \in Ends(cells) /\ Rank(Ends(cells), LineEnd(cells, k)) = k
    BY <2>1, LineEndRank
  <2>3. LineEnd(cells, l) \in Ends(cells) /\ Rank(Ends(cells), LineEnd(cells, l)) = l
    BY <1>2, LineEndRank
  <2> QED BY ONLY <1>1, <2>2, <2>3, k < l, RankOrder
<1> QED BY <1>3, <1>4

(* No line ends strictly between two that follow each other.               *)
LEMMA NoneBetween ==
  ASSUME NEW cells \in Text, options \in Options, NEW k \in 1..Count(cells), NEW i \in Ends(cells),
         i < LineEnd(cells, k)
  PROVE  i <= LineEnd(cells, k - 1)
<1>1. /\ Len(cells) \in Nat /\ Ends(cells) \in SUBSET (1..Len(cells)) /\ Count(cells) \in Nat
  BY EndsProperties, CountProperties DEF Text
<1> DEFINE rank(e) == Rank(Ends(cells), e)
<1>2. LineEnd(cells, k) \in Ends(cells) /\ rank(LineEnd(cells, k)) = k
  BY LineEndRank
<1>r. \A a, b \in Ends(cells) : rank(a) \in Nat /\ (a < b <=> rank(a) < rank(b))
  <2> TAKE a, b \in Ends(cells)
  <2> QED BY <1>1, RankOrder
<1>3. rank(i) \in Nat /\ rank(i) < k /\ k \in Nat
  <2>1. rank(i) \in Nat /\ (i < LineEnd(cells, k) <=> rank(i) < rank(LineEnd(cells, k)))
    BY <1>2, <1>r
  <2> QED BY <1>1, <1>2, <2>1
<1>4. rank(i) # 0
  <2>1. i \in {j \in Ends(cells) : j <= i} /\ {j \in Ends(cells) : j <= i} \in SUBSET (1..Len(cells))
    BY <1>1
  <2>2. IsFiniteSet({j \in Ends(cells) : j <= i})
    BY <1>1, <2>1, PartFinite
  <2> QED BY <2>1, <2>2, FS_EmptySet DEF Rank
<1>5. k - 1 \in 1..Count(cells)
  BY <1>1, <1>3, <1>4
<1>6. LineEnd(cells, k - 1) \in Ends(cells) /\ rank(LineEnd(cells, k - 1)) = k - 1
  BY <1>5, LineEndRank
<1>7. ~ (rank(LineEnd(cells, k - 1)) < rank(i))
  BY <1>3, <1>6
<1>8. ~ (LineEnd(cells, k - 1) < i)
  BY <1>6, <1>7, <1>r
<1>9. LineEnd(cells, k - 1) \in Nat /\ i \in Nat
  BY <1>1, <1>6
<1> QED BY <1>8, <1>9

-----------------------------------------------------------------------------
(* Cells that are lines: a text, a CR or none, and the NL of each.          *)
Lines(cells) == \A i \in 1..Len(cells) :
  /\ cells[i] > 0 \/ cells[i] \in {CR, NL}
  /\ i + 1 <= Len(cells) => /\ cells[i] > 0 => cells[i + 1] \in {CR, NL}
                            /\ cells[i] = CR => cells[i + 1] = NL

(* A part of a sequence of numbers.                                         *)
LEMMA Part ==
  ASSUME NEW s \in Seq(Int), NEW a \in 0..Len(s), NEW b \in 0..Len(s), a <= b
  PROVE  /\ SubSeq(s, a + 1, b) \in Seq(Int) /\ Len(SubSeq(s, a + 1, b)) = b - a
         /\ \A i \in 1..(b - a) : SubSeq(s, a + 1, b)[i] = s[a + i]
<1>1. Len(s) \in Nat /\ a + 1 \in Int /\ b \in Int /\ b - (a + 1) + 1 = b - a
  OBVIOUS
<1>2. \A i \in (a + 1)..b : s[i] \in Int
  BY <1>1
<1>3. /\ SubSeq(s, a + 1, b) \in Seq(Int)
      /\ Len(SubSeq(s, a + 1, b)) = IF a + 1 <= b THEN b - (a + 1) + 1 ELSE 0
      /\ \A i \in 1..(b - (a + 1) + 1) : SubSeq(s, a + 1, b)[i] = s[a + 1 + i - 1]
  <2> DEFINE from == a + 1
  <2>1. from \in Int /\ b \in Int /\ \A i \in from..b : s[i] \in Int
    BY <1>1, <1>2
  <2> HIDE DEF from
  <2>2. /\ SubSeq(s, from, b) \in Seq(Int)
        /\ Len(SubSeq(s, from, b)) = IF from <= b THEN b - from + 1 ELSE 0
        /\ \A i \in 1..(b - from + 1) : SubSeq(s, from, b)[i] = s[from + i - 1]
    BY ONLY <2>1, SubSeqProperties, SMTT(30)
  <2> QED BY <2>2 DEF from
<1>4. \A i \in 1..(b - a) : a + 1 + i - 1 = a + i
  BY <1>1
<1>5. (IF a + 1 <= b THEN b - (a + 1) + 1 ELSE 0) = b - a
  BY <1>1
<1> QED BY <1>1, <1>3, <1>4, <1>5

(* Sequences of up to two elements, by their elements.                     *)
LEMMA ShortSequences ==
  ASSUME NEW s \in Seq(Int)
  PROVE  /\ Len(s) = 0 => s = <<>>
         /\ Len(s) = 1 => s # <<>> /\ s = <<s[1]>> /\ Last(s) = s[1] /\ Front(s) = <<>>
         /\ Len(s) = 2 => s # <<>> /\ Last(s) = s[2] /\ Front(s) = <<s[1]>>
<1>1. Len(s) = 0 => s = <<>>
  OBVIOUS
<1>2. ASSUME Len(s) = 1 PROVE s # <<>> /\ s = <<s[1]>> /\ Last(s) = s[1] /\ Front(s) = <<>>
  <2>1. s # <<>> /\ s = <<s[1]>>
    BY <1>2
  <2>2. Last(s) = s[1]
    BY <1>2 DEF Last
  <2>3. Front(s) = SubSeq(s, 1, 0)
    BY <1>2 DEF Front
  <2> QED BY <2>1, <2>2, <2>3
<1>3. ASSUME Len(s) = 2 PROVE s # <<>> /\ Last(s) = s[2] /\ Front(s) = <<s[1]>>
  <2>0. s # <<>>
    BY <1>3, EmptyTexts
  <2>1. s # <<>> /\ Last(s) = s[2]
    BY <1>3, <2>0 DEF Last
  <2>2. Front(s) = SubSeq(s, 0 + 1, 1)
    BY <1>3 DEF Front
  <2>3. 0 \in 0..Len(s) /\ 1 \in 0..Len(s) /\ 0 <= 1 /\ 1 - 0 = 1 /\ 1 \in 1..1 /\ 0 + 1 = 1
    BY <1>3
  <2>4. Front(s) \in Seq(Int) /\ Len(Front(s)) = 1 /\ Front(s)[1] = s[1]
    BY <2>2, <2>3, Part
  <2>5. Front(s) = <<s[1]>>
    BY <2>4
  <2> QED BY <2>1, <2>5
<1> QED BY <1>1, <1>2, <1>3

(* Without its CR and NL a line is its text or nothing.                     *)
LEMMA OneLine ==
  ASSUME NEW cells \in Text, Lines(cells), NEW a \in 0..Len(cells), NEW b \in 1..Len(cells), a < b,
         cells[b] = NL, \A j \in (a + 1)..(b - 1) : cells[j] # NL
  PROVE  LET line == Stripped(SubSeq(cells, a + 1, b - 1)) IN
         \/ line = <<>> /\ \A q \in (a + 1)..(b - 1) : ~ (cells[q] > 0)
         \/ /\ a + 1 \in 1..(b - 1) /\ cells[a + 1] > 0 /\ line = <<cells[a + 1]>>
            /\ \A q \in (a + 1)..(b - 1) : cells[q] > 0 => q = a + 1
<1> DEFINE cut == SubSeq(cells, a + 1, b - 1)
<1>0. Len(cells) \in Nat /\ a \in Nat /\ b \in Nat /\ a + 1 <= b /\ NL = 0 /\ CR = -1 /\ cells \in Seq(Int)
  BY DEF Text, NL, CR
<1>1. \A i \in 1..Len(cells) : cells[i] \in Int
  BY <1>0
<1>2. cut \in Seq(Int) /\ Len(cut) = b - 1 - a /\ \A i \in 1..(b - 1 - a) : cut[i] = cells[a + i]
  <2>1. a \in 0..Len(cells) /\ b - 1 \in 0..Len(cells) /\ a <= b - 1
    BY <1>0
  <2> QED BY <1>0, <2>1, Part
<1> SUFFICES \/ Stripped(cut) = <<>> /\ \A q \in (a + 1)..(b - 1) : ~ (cells[q] > 0)
             \/ /\ a + 1 \in 1..(b - 1) /\ cells[a + 1] > 0 /\ Stripped(cut) = <<cells[a + 1]>>
                /\ \A q \in (a + 1)..(b - 1) : cells[q] > 0 => q = a + 1
  OBVIOUS
<1> HIDE DEF cut
<1>3. CASE b = a + 1
  <2>1. cut = <<>>
    <3>1. Len(cut) = 0
      BY <1>0, <1>2, <1>3
    <3> QED BY <1>2, <3>1
  <2>2. Stripped(cut) = <<>>
    BY <2>1 DEF Stripped
  <2>3. \A q \in (a + 1)..(b - 1) : FALSE
    BY <1>0, <1>3
  <2> QED BY <2>2, <2>3
<1>4. CASE b = a + 2
  <2>1. a + 1 \in 1..Len(cells) /\ a + 1 \in (a + 1)..(b - 1) /\ a + 2 - 1 = a + 1 /\ b - 1 - a = 1
        /\ a + 1 \in 1..(b - 1)
    BY <1>0, <1>4
  <2>2. Len(cut) = 1 /\ cut[1] = cells[a + 1] /\ cut \in Seq(Int)
    <3>1. 1 \in 1..(b - 1 - a)
      BY <2>1
    <3> QED BY <1>2, <2>1, <3>1
  <2>3. cut # <<>> /\ Last(cut) = cells[a + 1] /\ cut = <<cells[a + 1]>>
    BY <2>2, ShortSequences
  <2>4. \A q \in (a + 1)..(b - 1) : q = a + 1
    BY <1>0, <1>4
  <2>5. cells[a + 1] > 0 \/ cells[a + 1] = CR
    BY <2>1 DEF Lines
  <2>6. CASE cells[a + 1] > 0
    <3>1. Stripped(cut) = <<cells[a + 1]>>
      BY <1>0, <2>3, <2>6 DEF Stripped
    <3> QED BY <2>1, <2>4, <2>6, <3>1
  <2>7. CASE cells[a + 1] = CR
    <3>1. Front(cut) = <<>>
      BY <2>2, ShortSequences
    <3>2. Stripped(cut) = <<>>
      BY <2>3, <2>7, <3>1 DEF Stripped
    <3>3. ~ (cells[a + 1] > 0)
      BY <1>0, <2>7
    <3> QED BY <2>4, <3>2, <3>3
  <2> QED BY <2>5, <2>6, <2>7
<1>5. CASE b > a + 2
  <2>1. /\ a + 1 \in 1..Len(cells) /\ a + 2 \in 1..Len(cells) /\ a + 1 + 1 = a + 2
        /\ a + 1 \in (a + 1)..(b - 1) /\ a + 2 \in (a + 1)..(b - 1) /\ a + 1 \in 1..(b - 1)
    BY <1>0, <1>5
  <2>2. cells[a + 1] # NL /\ cells[a + 2] # NL
    BY <2>1
  <2>3. cells[a + 1] > 0 /\ cells[a + 2] = CR
    BY <1>0, <2>1, <2>2 DEF Lines
  <2>4. b = a + 3
    <3>1. a + 2 + 1 = a + 3 /\ a + 3 <= Len(cells)
      BY <1>0, <1>5
    <3>2. cells[a + 3] = NL
      BY <2>1, <2>3, <3>1 DEF Lines
    <3>3. a + 3 \notin (a + 1)..(b - 1)
      BY <3>2
    <3> QED BY <1>0, <1>5, <3>3
  <2>5. b - 1 - a = 2
    BY <1>0, <2>4
  <2>6. Len(cut) = 2 /\ cut[1] = cells[a + 1] /\ cut[2] = cells[a + 2] /\ cut \in Seq(Int)
    BY <1>2, <2>5
  <2>7. cut # <<>> /\ Last(cut) = CR /\ Front(cut) = <<cells[a + 1]>>
    BY <2>3, <2>6, ShortSequences
  <2>8. Stripped(cut) = <<cells[a + 1]>>
    BY <2>7 DEF Stripped
  <2>9. \A q \in (a + 1)..(b - 1) : q = a + 1 \/ q = a + 2
    BY <1>0, <2>4
  <2>10. ~ (cells[a + 2] > 0)
    BY <1>0, <2>3
  <2> QED BY <2>1, <2>3, <2>8, <2>9, <2>10
<1> QED BY <1>0, <1>3, <1>4, <1>5

(* What the k-th line of a buffer stands for, and where the text of a line  *)
(* is.                                                                      *)
LEMMA LineTexts ==
  ASSUME NEW cells \in Text, Lines(cells), options \in Options, NEW k \in 1..Count(cells)
  PROVE  /\ FirstLines(cells)[k] = <<>>
            \/ \E q \in 1..Len(cells) : /\ LineEnd(cells, k - 1) < q /\ q < LineEnd(cells, k)
                                        /\ cells[q] > 0 /\ FirstLines(cells)[k] = <<cells[q]>>
         /\ \A q \in 1..Len(cells) :
              LineEnd(cells, k - 1) < q /\ q < LineEnd(cells, k) /\ cells[q] > 0
                => FirstLines(cells)[k] = <<cells[q]>>
<1> DEFINE a == LineEnd(cells, k - 1)
           b == LineEnd(cells, k)
           line == Stripped(SubSeq(cells, a + 1, b - 1))
<1>0. /\ Len(cells) \in Nat /\ Count(cells) \in Nat /\ k - 1 \in 0..Count(cells) /\ k \in 0..Count(cells)
      /\ k - 1 < k
  BY CountProperties DEF Text
<1>1. a \in 0..Len(cells) /\ b \in Ends(cells)
  BY <1>0, LineEndProperties, LineEndRank
<1>2. b \in 1..Len(cells) /\ cells[b] = NL /\ a < b
  BY <1>0, <1>1, LineEndsRise DEF Ends, Text
<1>3. \A j \in (a + 1)..(b - 1) : cells[j] # NL
  <2> SUFFICES ASSUME NEW j \in (a + 1)..(b - 1), cells[j] = NL PROVE FALSE
    OBVIOUS
  <2>1. j \in Ends(cells) /\ j < b /\ ~ (j <= a)
    BY <1>0, <1>1, <1>2 DEF Ends, Text
  <2> QED BY <2>1, NoneBetween
<1>4. FirstLines(cells)[k] = line
  BY DEF FirstLines
<1> HIDE DEF a, b
<1>5. \/ line = <<>> /\ \A q \in (a + 1)..(b - 1) : ~ (cells[q] > 0)
      \/ /\ a + 1 \in 1..(b - 1) /\ cells[a + 1] > 0 /\ line = <<cells[a + 1]>>
         /\ \A q \in (a + 1)..(b - 1) : cells[q] > 0 => q = a + 1
  BY <1>1, <1>2, <1>3, OneLine
<1> HIDE DEF line
<1>6. a \in Nat /\ b \in Nat /\ \A q \in 1..Len(cells) : a < q /\ q < b => q \in (a + 1)..(b - 1)
  BY <1>0, <1>1, <1>2
<1>7. line = <<>> \/ \E q \in 1..Len(cells) : a < q /\ q < b /\ cells[q] > 0 /\ line = <<cells[q]>>
  <2>1. a + 1 \in 1..(b - 1) => a + 1 \in 1..Len(cells) /\ a < a + 1 /\ a + 1 < b
    BY <1>0, <1>2, <1>6
  <2> QED BY <1>5, <2>1
<1>8. \A q \in 1..Len(cells) : a < q /\ q < b /\ cells[q] > 0 => line = <<cells[q]>>
  BY <1>5, <1>6
<1> QED BY <1>4, <1>7, <1>8 DEF a, b

(* A text before the last of the first line ends is that of one of the      *)
(* lines.                                                                   *)
LEMMA TextsTaken ==
  ASSUME NEW cells \in Text, options \in Options, NEW q \in 1..Len(cells), cells[q] # NL,
         q < LineEnd(cells, Count(cells))
  PROVE  \E k \in 1..Count(cells) : LineEnd(cells, k - 1) < q /\ q < LineEnd(cells, k)
<1> DEFINE T == {k \in 1..Count(cells) : q < LineEnd(cells, k)}
<1>0. /\ Len(cells) \in Nat /\ Count(cells) \in Nat /\ q \in Nat /\ 0 < q
  BY CountProperties DEF Text
<1>1. Count(cells) \in T
  <2>1. Count(cells) # 0
    BY <1>0 DEF LineEnd
  <2> QED BY <1>0, <2>1
<1>2. PICK k \in T : \A l \in T : k <= l
  <2>1. T \subseteq Nat
    BY <1>0
  <2> QED BY <1>1, <2>1, Least
<1>3. k \in 1..Count(cells) /\ q < LineEnd(cells, k) /\ k \in Nat
  BY <1>0
<1>4. LineEnd(cells, k - 1) < q
  <2>1. CASE k = 1
    <3>1. LineEnd(cells, k - 1) = 0
      BY <2>1 DEF LineEnd
    <3> QED BY <1>0, <3>1
  <2>2. CASE k # 1
    <3>1. k - 1 \in 1..Count(cells) /\ ~ (k <= k - 1)
      BY <1>0, <1>3, <2>2
    <3>2. k - 1 \notin T
      BY <1>2, <3>1
    <3>3. ~ (q < LineEnd(cells, k - 1))
      BY <3>1, <3>2
    <3>4. LineEnd(cells, k - 1) \in 1..Len(cells) /\ cells[LineEnd(cells, k - 1)] = NL
      <4>1. LineEnd(cells, k - 1) \in Ends(cells)
        BY <3>1, LineEndRank
      <4> QED BY <4>1 DEF Ends, Text
    <3>5. LineEnd(cells, k - 1) # q
      BY <3>4
    <3> QED BY <1>0, <3>3, <3>4, <3>5
  <2> QED BY <2>1, <2>2
<1> QED BY <1>3, <1>4

-----------------------------------------------------------------------------
(* The buffer is what a connection sent behind its first p cells, which are *)
(* whole lines, up to its n-th.                                             *)
Behind(c, p, n, buffer) ==
  /\ n \in 0..Len(Wire[c]) /\ p \in 0..n /\ (p = 0 \/ Wire[c][p] = NL)
  /\ buffer = SubSeq(Wire[c], p + 1, n)

(* What a buffer behind p lines of a connection holds, cell by cell.       *)
LEMMA BehindCells ==
  ASSUME Marked, NEW c \in Conns, NEW p, NEW n, NEW buffer, Behind(c, p, n, buffer)
  PROVE  /\ buffer \in Text /\ Len(buffer) = n - p /\ p \in Nat /\ n \in Nat /\ n <= Len(Wire[c])
         /\ \A q \in 1..Len(buffer) : p + q \in 1..Len(Wire[c]) /\ buffer[q] = Wire[c][p + q]
         /\ Lines(buffer)
<1>0. Wire[c] \in Seq(Int) /\ Len(Wire[c]) \in Nat /\ DOMAIN Wire[c] = 1..Len(Wire[c])
  BY AgentAssumption DEF Text
<1>1. /\ n \in 0..Len(Wire[c]) /\ p \in 0..Len(Wire[c]) /\ p <= n /\ buffer = SubSeq(Wire[c], p + 1, n)
      /\ p \in Nat /\ n \in Nat /\ n <= Len(Wire[c])
  BY <1>0 DEF Behind
<1>2. /\ buffer \in Seq(Int) /\ Len(buffer) = n - p
      /\ \A q \in 1..(n - p) : buffer[q] = Wire[c][p + q]
  BY <1>0, <1>1, Part
<1>3. \A q \in 1..(n - p) : p + q \in 1..Len(Wire[c])
  BY <1>0, <1>1
<1>4. Lines(buffer)
  <2> SUFFICES ASSUME NEW q \in 1..(n - p)
               PROVE  /\ buffer[q] > 0 \/ buffer[q] \in {CR, NL}
                      /\ q + 1 <= n - p => /\ buffer[q] > 0 => buffer[q + 1] \in {CR, NL}
                                           /\ buffer[q] = CR => buffer[q + 1] = NL
    BY <1>2 DEF Lines
  <2>1. buffer[q] = Wire[c][p + q] /\ p + q \in DOMAIN Wire[c]
    BY <1>0, <1>2, <1>3
  <2>2. Wire[c][p + q] > 0 \/ Wire[c][p + q] \in {CR, NL}
    BY <2>1 DEF Marked
  <2>3. ASSUME q + 1 <= n - p
        PROVE  /\ buffer[q] > 0 => buffer[q + 1] \in {CR, NL}
               /\ buffer[q] = CR => buffer[q + 1] = NL
    <3>1. q + 1 \in 1..(n - p) /\ p + (q + 1) = p + q + 1
      BY <1>1, <2>3
    <3>2. buffer[q + 1] = Wire[c][p + q + 1] /\ p + q + 1 \in DOMAIN Wire[c]
      BY <1>0, <1>2, <1>3, <3>1
    <3>3. /\ Wire[c][p + q] > 0 => Wire[c][p + q + 1] \in {CR, NL}
          /\ Wire[c][p + q] = CR => Wire[c][p + q + 1] = NL
      BY <2>1, <3>2 DEF Marked
    <3> QED BY <2>1, <3>2, <3>3
  <2> QED BY <2>1, <2>2, <2>3
<1> QED BY <1>1, <1>2, <1>3, <1>4 DEF Text

(* The lines that end within whole lines, and within whole lines and the    *)
(* beginning of one more.                                                   *)
LEMMA EndedAt ==
  ASSUME NEW c \in Conns, NEW p \in 0..Len(Wire[c]), p = 0 \/ Wire[c][p] = NL
  PROVE  Ended(c, p) = {i \in 1..p : Wire[c][i] > 0}
<1>0. Wire[c] \in Seq(Int) /\ Len(Wire[c]) \in Nat /\ DOMAIN Wire[c] = 1..Len(Wire[c]) /\ p \in Nat
  BY AgentAssumption DEF Text
<1>1. ASSUME NEW i \in DOMAIN Wire[c], Wire[c][i] > 0, NEW j \in (i + 1)..p
      PROVE  i \in 1..p
  BY <1>0
<1>2. ASSUME NEW i \in 1..p, Wire[c][i] > 0
      PROVE  i \in DOMAIN Wire[c] /\ \E j \in (i + 1)..p : Wire[c][j] = NL
  <2>1. p # 0 /\ Wire[c][p] = NL
    BY <1>0
  <2>2. i # p
    BY <1>2, <2>1 DEF NL
  <2>3. p \in (i + 1)..p /\ i \in DOMAIN Wire[c]
    BY <1>0, <2>2
  <2> QED BY <2>1, <2>3
<1> QED BY <1>1, <1>2 DEF Ended

(* A buffer without an NL ends no line.                                    *)
LEMMA EndedBehind ==
  ASSUME Marked, NEW c \in Conns, NEW p, NEW n, NEW buffer, Behind(c, p, n, buffer), Ends(buffer) = {}
  PROVE  Ended(c, n) = Ended(c, p)
<1>0. Wire[c] \in Seq(Int) /\ Len(Wire[c]) \in Nat /\ DOMAIN Wire[c] = 1..Len(Wire[c])
  BY AgentAssumption DEF Text
<1>1. p \in Nat /\ n \in Nat /\ p <= n /\ n <= Len(Wire[c])
  BY <1>0 DEF Behind
<1>2. ASSUME NEW j \in 1..n, Wire[c][j] = NL PROVE j <= p
  <2> SUFFICES ASSUME ~ (j <= p) PROVE FALSE
    OBVIOUS
  <2>1. j - p \in 1..(n - p) /\ p + (j - p) = j
    BY <1>1
  <2>2. j - p \in 1..Len(buffer) /\ buffer[j - p] = NL
    BY <1>2, <2>1, BehindCells
  <2>3. j - p \in Ends(buffer)
    BY <2>2, BehindCells DEF Ends, Text
  <2> QED BY <2>3
<1>3. ASSUME NEW i \in DOMAIN Wire[c]
      PROVE  (\E j \in (i + 1)..n : Wire[c][j] = NL) <=> (\E j \in (i + 1)..p : Wire[c][j] = NL)
  <2>1. \A j \in (i + 1)..n : j \in 1..n
    BY <1>0
  <2>2. \A j \in (i + 1)..n : Wire[c][j] = NL => j \in (i + 1)..p
    BY <1>0, <1>1, <1>2, <2>1
  <2>3. \A j \in (i + 1)..p : j \in (i + 1)..n
    BY <1>1
  <2> QED BY <2>2, <2>3
<1> QED BY <1>3 DEF Ended

(* The lines of an append come from the cells up to the last of their ends, *)
LEMMA BatchLine ==
  ASSUME Marked, options \in Options, NEW c \in Conns, NEW p, NEW n, NEW buffer, Behind(c, p, n, buffer),
         NEW k \in 1..Count(buffer), NEW d \in Conns, NEW i \in DOMAIN Wire[d],
         FirstLines(buffer)[k] = <<Wire[d][i]>>
  PROVE  /\ d = c /\ Wire[c][i] > 0
         /\ i - p \in 1..Len(buffer) /\ LineEnd(buffer, k - 1) < i - p /\ i - p < LineEnd(buffer, k)
<1>1. FirstLines(buffer)[k] # <<>>
  OBVIOUS
<1>2. PICK q \in 1..Len(buffer) :
        /\ LineEnd(buffer, k - 1) < q /\ q < LineEnd(buffer, k)
        /\ buffer[q] > 0 /\ FirstLines(buffer)[k] = <<buffer[q]>>
  BY <1>1, BehindCells, LineTexts
<1>3. p \in Nat /\ p + q \in DOMAIN Wire[c] /\ buffer[q] = Wire[c][p + q] /\ q \in Nat
  <2>1. DOMAIN Wire[c] = 1..Len(Wire[c])
    BY AgentAssumption DEF Text
  <2> QED BY <2>1, BehindCells
<1>4. Wire[c][p + q] = Wire[d][i] /\ Wire[c][p + q] > 0
  BY <1>2, <1>3
<1>5. d = c /\ i = p + q
  BY <1>3, <1>4 DEF Marked
<1>6. i - p = q
  BY <1>3, <1>5
<1> QED BY <1>2, <1>4, <1>5, <1>6

(* ... all of them, in order, and the buffer goes on behind it.             *)
LEMMA BatchOfStream ==
  ASSUME Marked, options \in Options, NEW c \in Conns, NEW p, NEW n, NEW buffer, Behind(c, p, n, buffer)
  PROVE  LET batch == FirstLines(buffer)
             end == p + LineEnd(buffer, Count(buffer)) IN
         /\ p <= end /\ Behind(c, end, n, After(buffer))
         /\ Held(c, batch) = {i \in (p + 1)..end : Wire[c][i] > 0}
         /\ \A d \in Conns : InOrder(d, batch) /\ (d # c => Held(d, batch) = {})
<1> DEFINE batch == FirstLines(buffer)
           m == Count(buffer)
           e == LineEnd(buffer, m)
           end == p + e
<1>0. /\ Wire[c] \in Seq(Int) /\ Len(Wire[c]) \in Nat /\ DOMAIN Wire[c] = 1..Len(Wire[c])
      /\ buffer \in Text /\ buffer \in Seq(Int) /\ Len(buffer) = n - p /\ p \in Nat /\ n \in Nat /\ n <= Len(Wire[c]) /\ p <= n
      /\ \A q \in 1..Len(buffer) : p + q \in 1..Len(Wire[c]) /\ buffer[q] = Wire[c][p + q]
      /\ Lines(buffer)
  <2>1. Wire[c] \in Seq(Int) /\ Len(Wire[c]) \in Nat /\ DOMAIN Wire[c] = 1..Len(Wire[c])
    BY AgentAssumption DEF Text
  <2>2. p <= n
    BY <2>1 DEF Behind
  <2>3. /\ buffer \in Text /\ Len(buffer) = n - p /\ p \in Nat /\ n \in Nat /\ n <= Len(Wire[c])
        /\ \A q \in 1..Len(buffer) : p + q \in 1..Len(Wire[c]) /\ buffer[q] = Wire[c][p + q]
        /\ Lines(buffer)
    BY BehindCells
  <2> QED BY <2>1, <2>2, <2>3 DEF Text
<1>1. m \in Nat /\ m \in 0..m /\ e \in 0..(n - p) /\ (m # 0 => e \in Ends(buffer)) /\ (m = 0 => e = 0)
  <2>1. m \in Nat /\ m \in 0..m
    BY <1>0, CountProperties
  <2>2. e \in 0..Len(buffer) /\ (m # 0 => e \in Ends(buffer))
    BY <1>0, <2>1, LineEndProperties
  <2> QED BY <1>0, <2>1, <2>2 DEF LineEnd
<1>2. batch = [k \in 1..m |-> batch[k]] /\ DOMAIN batch = 1..m
  BY DEF FirstLines
<1>3. \A k \in 1..m : LineEnd(buffer, k) <= e /\ LineEnd(buffer, k) \in Nat
  <2> TAKE k \in 1..m
  <2>1. k \in 0..m /\ (k = m \/ k < m)
    BY <1>1
  <2>2. LineEnd(buffer, k) \in Nat
    BY <1>0, <2>1, LineEndProperties
  <2>3. CASE k < m
    BY <1>0, <1>1, <2>1, <2>2, <2>3, LineEndsRise
  <2> QED BY <1>1, <2>1, <2>2, <2>3
<1> HIDE DEF batch, m, e
<1>4. Behind(c, end, n, After(buffer))
  <2>1. e \in 0..Len(buffer) /\ Len(buffer) \in 0..Len(buffer) /\ e <= Len(buffer)
    BY <1>0, <1>1
  <2>2. /\ SubSeq(buffer, e + 1, Len(buffer)) \in Seq(Int)
        /\ Len(SubSeq(buffer, e + 1, Len(buffer))) = Len(buffer) - e
        /\ \A i \in 1..(Len(buffer) - e) : SubSeq(buffer, e + 1, Len(buffer))[i] = buffer[e + i]
    BY <1>0, <2>1, Part
  <2>3. /\ SubSeq(Wire[c], end + 1, n) \in Seq(Int) /\ Len(SubSeq(Wire[c], end + 1, n)) = n - end
        /\ \A i \in 1..(n - end) : SubSeq(Wire[c], end + 1, n)[i] = Wire[c][end + i]
    <3>1. end \in 0..Len(Wire[c]) /\ n \in 0..Len(Wire[c]) /\ end <= n
      BY <1>0, <1>1
    <3> HIDE DEF end
    <3> QED BY <1>0, <3>1, Part
  <2>4. Len(buffer) - e = n - end
    BY <1>0, <1>1
  <2>5. \A i \in 1..(n - end) : buffer[e + i] = Wire[c][end + i]
    <3> TAKE i \in 1..(n - end)
    <3>1. e + i \in 1..Len(buffer) /\ p + (e + i) = end + i
      BY <1>0, <1>1
    <3> QED BY <1>0, <3>1
  <2> DEFINE a == SubSeq(buffer, e + 1, Len(buffer))
             b == SubSeq(Wire[c], end + 1, n)
  <2>6. /\ a \in Seq(Int) /\ b \in Seq(Int) /\ Len(a) = n - end /\ Len(b) = n - end
        /\ \A i \in 1..(n - end) : a[i] = b[i]
    BY <2>2, <2>3, <2>4, <2>5
  <2> HIDE DEF a, b, end
  <2>7. a = b
    BY <2>6
  <2>8. After(buffer) = SubSeq(Wire[c], end + 1, n)
    BY <2>7 DEF After, a, b, e, m
  <2>9. end \in 0..n /\ (end = 0 \/ Wire[c][end] = NL)
    <3>1. CASE m = 0
      BY <1>0, <1>1, <3>1 DEF end, Behind
    <3>2. CASE m # 0
      <4>1. e \in 1..Len(buffer) /\ buffer[e] = NL
        BY <1>0, <1>1, <3>2 DEF Ends
      <4>2. Wire[c][p + e] = NL
        BY <1>0, <4>1
      <4> QED BY <1>0, <1>1, <4>2 DEF end
    <3> QED BY <3>1, <3>2
  <2> QED BY <1>0, <2>8, <2>9 DEF Behind
<1>5. ASSUME NEW d \in Conns, NEW i \in Held(d, batch)
      PROVE  d = c /\ i \in (p + 1)..end /\ Wire[c][i] > 0
  <2>1. PICK k \in 1..m : batch[k] = <<Wire[d][i]>>
    BY <1>2 DEF Held, ToSet
  <2>2. /\ i \in DOMAIN Wire[d] /\ d = c /\ Wire[c][i] > 0
        /\ i - p \in 1..Len(buffer) /\ LineEnd(buffer, k - 1) < i - p /\ i - p < LineEnd(buffer, k)
    BY <2>1, BatchLine DEF Held, batch, m
  <2>3. i \in Nat
    <3>1. i \in 1..Len(Wire[c])
      BY <1>0, <2>2
    <3> QED BY <3>1
  <2>4. i - p \in 1..e
    <3>1. LineEnd(buffer, k) <= e /\ LineEnd(buffer, k) \in Nat
      BY <1>3
    <3>2. i - p \in Int /\ 1 <= i - p /\ i - p < LineEnd(buffer, k) /\ e \in Nat
      BY <1>0, <1>1, <2>2, <2>3
    <3> QED BY <3>1, <3>2
  <2>5. i \in (p + 1)..(p + e)
    <3>1. p \in Nat /\ e \in Nat
      BY <1>0, <1>1
    <3> QED BY <2>3, <2>4, <3>1
  <2> QED BY <2>2, <2>5
<1>6. ASSUME NEW i \in (p + 1)..end, Wire[c][i] > 0
      PROVE  i \in Held(c, batch)
  <2>1. i - p \in 1..Len(buffer) /\ buffer[i - p] = Wire[c][i] /\ i \in DOMAIN Wire[c] /\ i - p <= e
    <3>1. i - p \in 1..Len(buffer) /\ p + (i - p) = i /\ i - p <= e
      BY <1>0, <1>1
    <3> QED BY <1>0, <3>1
  <2>0. buffer[i - p] > 0
    BY <1>6, <2>1
  <2>2. m # 0 /\ buffer[i - p] # NL
    <3>1. m # 0
      BY <1>0, <1>1, <2>1
    <3> QED BY <2>0, <3>1 DEF NL
  <2>3. i - p # e
    BY <1>1, <2>2 DEF Ends
  <2>4. i - p < e
    BY <1>0, <1>1, <2>1, <2>3
  <2>5. PICK k \in 1..m : LineEnd(buffer, k - 1) < i - p /\ i - p < LineEnd(buffer, k)
    BY <1>0, <2>1, <2>2, <2>4, TextsTaken DEF e, m
  <2>6. batch[k] = <<Wire[c][i]>>
    <3>1. batch[k] = <<buffer[i - p]>>
      BY <1>0, <2>0, <2>1, <2>5, LineTexts DEF batch, m
    <3> QED BY <2>1, <3>1
  <2> QED BY <1>2, <2>1, <2>6 DEF Held, ToSet
<1>7. Held(c, batch) = {i \in (p + 1)..end : Wire[c][i] > 0}
  BY <1>5, <1>6
<1>8. ASSUME NEW d \in Conns PROVE InOrder(d, batch)
  <2> SUFFICES ASSUME NEW k \in 1..m, NEW l \in 1..m, NEW i \in DOMAIN Wire[d], NEW j \in DOMAIN Wire[d],
                      k < l, batch[k] = <<Wire[d][i]>>, batch[l] = <<Wire[d][j]>>
               PROVE  i < j
    BY <1>2 DEF InOrder
  <2>1. d = c /\ i - p \in 1..Len(buffer) /\ i - p < LineEnd(buffer, k)
    BY BatchLine DEF batch, m
  <2>2. j - p \in 1..Len(buffer) /\ LineEnd(buffer, l - 1) < j - p
    BY BatchLine DEF batch, m
  <2>3. LineEnd(buffer, k) <= LineEnd(buffer, l - 1) /\ LineEnd(buffer, l - 1) \in Nat
    <3>1. l - 1 \in 0..m /\ k \in 0..m /\ (k = l - 1 \/ k < l - 1)
      BY <1>1
    <3>2. LineEnd(buffer, l - 1) \in Nat
      BY <1>0, <3>1, LineEndProperties DEF m
    <3>3. k < l - 1 => LineEnd(buffer, k) < LineEnd(buffer, l - 1)
      BY <1>0, <3>1, LineEndsRise DEF m
    <3> QED BY <1>3, <3>1, <3>2, <3>3
  <2>4. i \in Nat /\ j \in Nat
    <3>1. i \in 1..Len(Wire[c]) /\ j \in 1..Len(Wire[c])
      BY <1>0, <2>1
    <3> QED BY <3>1
  <2>5. LineEnd(buffer, k) \in Nat
    BY <1>3
  <2> QED BY ONLY <1>0, <2>1, <2>2, <2>3, <2>4, <2>5
<1>9. p <= end
  BY <1>0, <1>1
<1>10. \A d \in Conns : d # c => Held(d, batch) = {}
  BY <1>5
<1> QED BY <1>4, <1>7, <1>8, <1>9, <1>10 DEF batch, e, m

(* More cells end more lines, and of two lines the first ends first.        *)
LEMMA EndedMore ==
  ASSUME NEW c \in Conns, NEW n \in Nat, NEW m \in Nat, n <= m
  PROVE  /\ Ended(c, n) \subseteq Ended(c, m)
         /\ \A i \in DOMAIN Wire[c] : \A j \in Ended(c, n) :
              i < j /\ Wire[c][i] > 0 => i \in Ended(c, n)
<1>0. DOMAIN Wire[c] = 1..Len(Wire[c]) /\ Len(Wire[c]) \in Nat
  BY AgentAssumption DEF Text
<1>1. \A i \in 1..Len(Wire[c]) : \A j \in (i + 1)..n : j \in (i + 1)..m
  BY <1>0
<1>2. \A i, j \in 1..Len(Wire[c]) : i < j => \A k \in (j + 1)..n : k \in (i + 1)..n
  BY <1>0
<1>3. Ended(c, n) \subseteq Ended(c, m)
  BY <1>0, <1>1 DEF Ended
<1>4. ASSUME NEW i \in DOMAIN Wire[c], NEW j \in Ended(c, n), i < j, Wire[c][i] > 0
      PROVE  i \in Ended(c, n)
  <2>1. PICK k \in (j + 1)..n : j \in 1..Len(Wire[c]) /\ Wire[c][k] = NL
    BY <1>0 DEF Ended
  <2>2. k \in (i + 1)..n
    BY <1>0, <1>2, <1>4, <2>1
  <2> QED BY <1>4, <2>1, <2>2 DEF Ended
<1> QED BY <1>3, <1>4

(* A read goes on where the buffer ends.                                    *)
LEMMA ReadOn ==
  ASSUME NEW c \in Conns, NEW p, NEW n, NEW buffer, Behind(c, p, n, buffer),
         NEW k \in Nat, n + k <= Len(Wire[c])
  PROVE  Behind(c, p, n + k, buffer \o SubSeq(Wire[c], n + 1, n + k))
<1>0. Wire[c] \in Seq(Int) /\ Len(Wire[c]) \in Nat
  BY AgentAssumption DEF Text
<1>1. /\ p \in 0..Len(Wire[c]) /\ n \in 0..Len(Wire[c]) /\ p <= n /\ buffer = SubSeq(Wire[c], p + 1, n)
      /\ n + k \in 0..Len(Wire[c]) /\ n <= n + k /\ p <= n + k /\ n \in Nat /\ p \in Nat
  BY <1>0 DEF Behind
<1> DEFINE more == SubSeq(Wire[c], n + 1, n + k)
           all == SubSeq(Wire[c], p + 1, n + k)
<1>2. /\ buffer \in Seq(Int) /\ Len(buffer) = n - p
      /\ \A i \in 1..(n - p) : buffer[i] = Wire[c][p + i]
  BY <1>0, <1>1, Part
<1>3. more \in Seq(Int) /\ Len(more) = k /\ \A i \in 1..k : more[i] = Wire[c][n + i]
  <2>1. n + k - n = k
    BY <1>1
  <2> DEFINE m == n + k
  <2>2. m \in 0..Len(Wire[c]) /\ n <= m /\ m - n = k
    BY <1>1, <2>1
  <2> HIDE DEF m
  <2>3. SubSeq(Wire[c], n + 1, m) \in Seq(Int) /\ Len(SubSeq(Wire[c], n + 1, m)) = k
        /\ \A i \in 1..k : SubSeq(Wire[c], n + 1, m)[i] = Wire[c][n + i]
    BY <1>0, <1>1, <2>2, Part
  <2> QED BY <2>3 DEF m
<1>4. all \in Seq(Int) /\ Len(all) = n + k - p /\ \A i \in 1..(n + k - p) : all[i] = Wire[c][p + i]
  <2> DEFINE m == n + k
  <2>1. m \in 0..Len(Wire[c]) /\ p <= m
    BY <1>1
  <2> HIDE DEF m
  <2>2. SubSeq(Wire[c], p + 1, m) \in Seq(Int) /\ Len(SubSeq(Wire[c], p + 1, m)) = m - p
        /\ \A i \in 1..(m - p) : SubSeq(Wire[c], p + 1, m)[i] = Wire[c][p + i]
    BY <1>0, <1>1, <2>1, Part
  <2>3. all = SubSeq(Wire[c], p + 1, m)
    BY DEF m
  <2> HIDE DEF all
  <2>4. all \in Seq(Int) /\ Len(all) = m - p /\ \A i \in 1..(m - p) : all[i] = Wire[c][p + i]
    BY <2>2, <2>3
  <2>5. m - p = n + k - p
    BY <1>1 DEF m
  <2> QED BY <2>4, <2>5
<1> HIDE DEF more, all
<1>5. buffer \o more \in Seq(Int) /\ Len(buffer \o more) = n - p + k
      /\ \A i \in 1..(n - p + k) :
           (buffer \o more)[i] = IF i <= n - p THEN buffer[i] ELSE more[i - (n - p)]
  <2>1. buffer \o more \in Seq(Int) /\ Len(buffer \o more) = Len(buffer) + Len(more)
        /\ \A i \in 1..(Len(buffer) + Len(more)) :
             (buffer \o more)[i] = IF i <= Len(buffer) THEN buffer[i] ELSE more[i - Len(buffer)]
    BY ONLY <1>2, <1>3, ConcatProperties
  <2> QED BY <1>2, <1>3, <2>1
<1>6. \A i \in 1..(n - p + k) : (buffer \o more)[i] = Wire[c][p + i]
  <2> TAKE i \in 1..(n - p + k)
  <2>1. CASE i <= n - p
    <3>1. i \in 1..(n - p)
      BY <1>1, <2>1
    <3> QED BY <1>2, <1>5, <2>1, <3>1
  <2>2. CASE ~ (i <= n - p)
    <3>1. i - (n - p) \in 1..k /\ n + (i - (n - p)) = p + i
      BY <1>1, <2>2
    <3> QED BY <1>3, <1>5, <2>2, <3>1
  <2> QED BY <2>1, <2>2
<1>7. n - p + k = n + k - p
  BY <1>1
<1> DEFINE both == buffer \o more
<1>8. both \in Seq(Int) /\ Len(both) = Len(all) /\ \A i \in 1..Len(all) : both[i] = all[i]
  BY <1>4, <1>5, <1>6, <1>7
<1> HIDE DEF both
<1>9. both = all
  BY <1>4, <1>8
<1>10. p \in 0..(n + k) /\ (p = 0 \/ Wire[c][p] = NL)
  BY <1>1 DEF Behind
<1> QED BY <1>1, <1>9, <1>10 DEF Behind, both, all, more

-----------------------------------------------------------------------------
(* What a log has of a connection when records are added to it.             *)
LEMMA HeldMore ==
  ASSUME NEW log \in Seq(Text), NEW more \in Seq(Text), NEW c \in Conns
  PROVE  Held(c, log \o more) = Held(c, log) \cup Held(c, more)
<1>1. Len(log) \in Nat /\ Len(more) \in Nat /\ log \o more \in Seq(Text)
      /\ Len(log \o more) = Len(log) + Len(more)
  BY ConcatProperties
<1>2. ToSet(log) \subseteq ToSet(log \o more) /\ ToSet(more) \subseteq ToSet(log \o more)
  BY ToSetMore
<1>3. ASSUME NEW k \in 1..Len(log \o more)
      PROVE  (log \o more)[k] \in ToSet(log) \cup ToSet(more)
  <2>1. CASE k <= Len(log)
    <3>1. k \in 1..Len(log)
      BY <1>1, <2>1
    <3>2. (log \o more)[k] = log[k]
      BY <1>1, <2>1, ConcatProperties
    <3> QED BY <3>1, <3>2 DEF ToSet
  <2>2. CASE ~ (k <= Len(log))
    <3>1. k - Len(log) \in 1..Len(more)
      BY <1>1, <2>2
    <3>2. (log \o more)[k] = more[k - Len(log)]
      BY <1>1, <2>2, ConcatProperties
    <3> QED BY <3>1, <3>2 DEF ToSet
  <2> QED BY <2>1, <2>2
<1>4. ToSet(log \o more) = ToSet(log) \cup ToSet(more)
  <2>1. ASSUME NEW x \in ToSet(log \o more) PROVE x \in ToSet(log) \cup ToSet(more)
    <3>1. PICK k \in DOMAIN (log \o more) : x = (log \o more)[k]
      BY DEF ToSet
    <3> QED BY <1>1, <1>3, <3>1
  <2> QED BY <1>2, <2>1
<1> QED BY <1>4 DEF Held

(* A log stays in order when what is added comes behind what it has.       *)
LEMMA InOrderMore ==
  ASSUME NEW log \in Seq(Text), NEW more \in Seq(Text), NEW c \in Conns,
         InOrder(c, log), InOrder(c, more), \A i \in Held(c, log) : \A j \in Held(c, more) : i < j
  PROVE  InOrder(c, log \o more)
<1>1. Len(log) \in Nat /\ Len(more) \in Nat /\ log \o more \in Seq(Text)
      /\ Len(log \o more) = Len(log) + Len(more)
  BY ConcatProperties
<1> SUFFICES ASSUME NEW k \in 1..Len(log \o more), NEW l \in 1..Len(log \o more),
                    NEW i \in DOMAIN Wire[c], NEW j \in DOMAIN Wire[c], k < l,
                    (log \o more)[k] = <<Wire[c][i]>>, (log \o more)[l] = <<Wire[c][j]>>
             PROVE  i < j
  <2>1. DOMAIN (log \o more) = 1..Len(log \o more)
    BY <1>1
  <2> QED BY <2>1 DEF InOrder
<1>2. ASSUME NEW e \in 1..Len(log \o more)
      PROVE  IF e <= Len(log) THEN e \in 1..Len(log) /\ (log \o more)[e] = log[e]
             ELSE e - Len(log) \in 1..Len(more) /\ (log \o more)[e] = more[e - Len(log)]
  BY <1>1, ConcatProperties
<1>3. CASE l <= Len(log)
  <2>1. k <= Len(log)
    BY <1>1, <1>3
  <2>2. k \in DOMAIN log /\ l \in DOMAIN log /\ log[k] = <<Wire[c][i]>> /\ log[l] = <<Wire[c][j]>>
    BY <1>2, <1>3, <2>1
  <2> QED BY <2>2 DEF InOrder
<1>4. CASE ~ (k <= Len(log))
  <2>1. ~ (l <= Len(log)) /\ k - Len(log) < l - Len(log)
    BY <1>1, <1>4
  <2>2. /\ k - Len(log) \in DOMAIN more /\ l - Len(log) \in DOMAIN more
        /\ more[k - Len(log)] = <<Wire[c][i]>> /\ more[l - Len(log)] = <<Wire[c][j]>>
    BY <1>2, <1>4, <2>1
  <2> QED BY <2>1, <2>2 DEF InOrder
<1>5. CASE k <= Len(log) /\ ~ (l <= Len(log))
  <2>1. k \in DOMAIN log /\ log[k] = <<Wire[c][i]>>
    BY <1>2, <1>5
  <2>2. l - Len(log) \in DOMAIN more /\ more[l - Len(log)] = <<Wire[c][j]>>
    BY <1>2, <1>5
  <2>3. i \in Held(c, log) /\ j \in Held(c, more)
    BY <2>1, <2>2 DEF Held, ToSet
  <2> QED BY <2>3
<1> QED BY <1>3, <1>4, <1>5

(* Records that are no connection's lines change nothing.                   *)
Foreign(t) == \A c \in Conns : \A i \in DOMAIN Wire[c] : t # <<Wire[c][i]>>
(* Records of no connection leave what a log has of each as it is.         *)
LEMMA ForeignMore ==
  ASSUME NEW log \in Seq(Text), NEW more \in Seq(Text), NEW c \in Conns, InOrder(c, log),
         \A k \in DOMAIN more : Foreign(more[k])
  PROVE  Held(c, log \o more) = Held(c, log) /\ InOrder(c, log \o more)
<1>1. Held(c, more) = {}
  BY DEF Held, ToSet, Foreign
<1>2. InOrder(c, more)
  BY DEF InOrder, Foreign
<1>3. Held(c, log \o more) = Held(c, log)
  <2>1. Held(c, log \o more) = Held(c, log) \cup Held(c, more)
    BY HeldMore
  <2> QED BY <1>1, <2>1
<1>4. \A i \in Held(c, log) : \A j \in Held(c, more) : i < j
  BY <1>1
<1> QED BY <1>2, <1>3, <1>4, InOrderMore

(* A crash takes the end of the log, so what is left of a connection is     *)
(* still its beginning.                                                     *)
LEMMA CutLog ==
  ASSUME Marked, NEW log \in Seq(Text), NEW more \in Seq(Text), NEW c \in Conns, InOrder(c, log \o more)
  PROVE  /\ InOrder(c, log) /\ Held(c, log) \subseteq Held(c, log \o more)
         /\ \A i \in Held(c, log \o more) : \A j \in Held(c, log) : i < j => i \in Held(c, log)
<1>1. Len(log) \in Nat /\ Len(more) \in Nat /\ log \o more \in Seq(Text)
      /\ Len(log \o more) = Len(log) + Len(more)
  BY ConcatProperties
<1>2. \A k \in DOMAIN log : k \in DOMAIN (log \o more) /\ (log \o more)[k] = log[k]
  BY <1>1, ConcatProperties
<1>3. InOrder(c, log)
  BY <1>2 DEF InOrder
<1>4. Held(c, log) \subseteq Held(c, log \o more)
  BY HeldMore
<1>5. ASSUME NEW i \in Held(c, log \o more), NEW j \in Held(c, log), i < j PROVE i \in Held(c, log)
  <2>1. PICK k \in DOMAIN (log \o more) : (log \o more)[k] = <<Wire[c][i]>>
    BY DEF Held, ToSet
  <2>2. PICK l \in DOMAIN log : log[l] = <<Wire[c][j]>>
    BY DEF Held, ToSet
  <2>3. i \in DOMAIN Wire[c] /\ j \in DOMAIN Wire[c] /\ DOMAIN Wire[c] = 1..Len(Wire[c])
        /\ Len(Wire[c]) \in Nat
    <3>1. DOMAIN Wire[c] = 1..Len(Wire[c]) /\ Len(Wire[c]) \in Nat
      BY AgentAssumption DEF Text
    <3> QED BY <3>1 DEF Held
  <2>4. k \in 1..(Len(log) + Len(more)) /\ l \in 1..Len(log)
    BY <1>1, <2>1, <2>2
  <2>5. CASE k <= Len(log)
    <3>1. k \in DOMAIN log /\ log[k] = <<Wire[c][i]>>
      BY <1>1, <1>2, <2>1, <2>4, <2>5
    <3> QED BY <2>3, <3>1 DEF Held, ToSet
  <2>6. CASE ~ (k <= Len(log))
    <3>1. l < k /\ l \in DOMAIN (log \o more) /\ (log \o more)[l] = <<Wire[c][j]>>
      BY <1>1, <1>2, <2>2, <2>4, <2>6
    <3>2. j < i
      BY <2>1, <2>3, <3>1 DEF InOrder
    <3> QED BY <1>5, <2>3, <3>2
  <2> QED BY <2>5, <2>6
<1> QED BY <1>3, <1>4, <1>5

-----------------------------------------------------------------------------
(* The sources that serve connections, and the connections none has served. *)
Streams == {"tcp", "unix"}
Unserved == {"none", "queued"}
(* The records the engine has.                                              *)
Log == stored \o queued

(* Source s, in state x, serves connection c, in state peer: it holds what  *)
(* it has read behind the lines it has appended, and no complete line       *)
(* unless it is about to append it.                                         *)
Serves(s, x, c, peer, log) ==
  /\ Via[c] = s /\ peer.state \notin Unserved
  /\ \E p \in Nat : Behind(c, p, peer.read, x.buffer) /\ Held(c, log) = Ended(c, p)
  /\ x.at # "append" => Ends(x.buffer) = {}
ServingOK == \A s \in Streams : \A c \in Conns :
  source[s].conn = c => Serves(s, source[s], c, conn[c], Log)
(* A source that serves none holds nothing.                                 *)
IdleOK == \A s \in Streams :
  /\ source[s].conn = 0 => source[s].buffer = <<>> /\ source[s].at \notin {"read", "append"}
  /\ source[s].at = "accept" => source[s].conn = 0
  /\ main \in NotStarted => source[s].conn = 0
(* The log has the beginning of what was read, in order.                    *)
FirstPart(c) ==
  /\ InOrder(c, Log) /\ Held(c, Log) \subseteq Ended(c, conn[c].read)
  /\ \A i \in DOMAIN Wire[c] : \A j \in Held(c, Log) : i < j /\ Wire[c][i] > 0 => i \in Held(c, Log)
LogOK == \A c \in Conns :
  FirstPart(c) /\ (conn[c].state \in Unserved => conn[c].read = 0 /\ Held(c, Log) = {})
(* Nothing is missing of a connection that was served to its end.           *)
WholeOK == \A c \in Conns :
  faults = 0 /\ crashes = 0 /\ (\A s \in Streams : source[s].conn # c)
    => Held(c, Log) = Ended(c, conn[c].read)
(* A source fails with an append, a migration is torn by a crash.           *)
BlameOK == (\A s \in Sources : source[s].at = "failed" => faults # 0) /\ (torn => crashes # 0)
(* What the other sources and the requests hold are no connection's lines.  *)
AllForeign(records) == \A k \in DOMAIN records : Foreign(records[k])
ForeignOK ==
  /\ \A s \in {"stdin", "udp"} : source[s].conn = 0 /\ AllForeign(source[s].lines)
  /\ AllForeign(arrived.queue) /\ AllForeign(typed.lines)
  /\ \A r \in Requests : request[r].at \in {"sent", "append"} => request[r].body \in options.bodies

Streaming == ServingOK /\ IdleOK /\ LogOK /\ WholeOK
(* The inductive invariant of what becomes of a stream, beside IndInv.      *)
StreamInv == Streaming /\ BlameOK /\ ForeignOK

(* A step that leaves the socket sources and what is read of connections    *)
(* alone, and adds none of their lines to the log.                          *)
LEMMA StreamsStay ==
  ASSUME Streaming, \A s \in Streams : source'[s] = source[s],
         \A c \in Conns : /\ conn'[c].read = conn[c].read
                          /\ conn'[c].state \in Unserved <=> conn[c].state \in Unserved,
         \A c \in Conns : InOrder(c, Log') /\ Held(c, Log') = Held(c, Log),
         faults' = 0 /\ crashes' = 0 => faults = 0 /\ crashes = 0,
         main' \in NotStarted => main \in NotStarted, source \in [Sources -> Served]
  PROVE  Streaming'
<1>0. \A s \in Streams : source[s].conn \in Conns \cup {0}
  BY DEF Streams, Sources, Served
<1>1. ServingOK'
  <2> SUFFICES ASSUME NEW s \in Streams, NEW c \in Conns, source[s].conn = c
               PROVE  Serves(s, source[s], c, conn'[c], Log')
    BY DEF ServingOK
  <2>1. Serves(s, source[s], c, conn[c], Log)
    BY DEF Streaming, ServingOK
  <2> QED BY <2>1 DEF Serves
<1>2. IdleOK'
  BY DEF Streaming, IdleOK
<1>3. LogOK'
  BY DEF Streaming, LogOK, FirstPart
<1>4. WholeOK'
  BY DEF Streaming, WholeOK
<1> QED BY <1>1, <1>2, <1>3, <1>4 DEF Streaming

(* A step of one source with one connection.                                *)
LEMMA StreamMoves ==
  ASSUME IndInv, Marked, Streaming, NEW s \in Streams, NEW c \in Conns, Via[c] = s, NEW x,
         source' = [source EXCEPT ![s] = x], source[s].conn \in {0, c}, main \notin NotStarted,
         UNCHANGED <<main, crashes>>, faults' = 0 => faults = 0,
         \A d \in Conns : d # c => conn'[d] = conn[d] /\ Held(d, Log') = Held(d, Log),
         \A d \in Conns : InOrder(d, Log'),
         conn'[c].state \notin Unserved, Held(c, Log') \subseteq Ended(c, conn'[c].read),
         \A i \in DOMAIN Wire[c] : \A j \in Held(c, Log') :
           i < j /\ Wire[c][i] > 0 => i \in Held(c, Log'),
         \/ /\ x.conn = c /\ x.at # "accept" /\ (x.at # "append" => Ends(x.buffer) = {})
            /\ \E p \in Nat : Behind(c, p, conn'[c].read, x.buffer) /\ Held(c, Log') = Ended(c, p)
         \/ /\ x.conn = 0 /\ x.buffer = <<>> /\ x.at \notin {"read", "append"}
            /\ faults' = 0 /\ crashes' = 0 => Held(c, Log') = Ended(c, conn'[c].read)
  PROVE  Streaming'
<1>0. source \in [Sources -> Served] /\ Streams \subseteq Sources /\ c # 0
      /\ \A t \in Streams : source[t].conn \in Conns \cup {0}
  <2>1. source \in [Sources -> Served] /\ Streams \subseteq Sources
    BY DEF IndInv, Typed, SourceType, Streams, Sources
  <2> QED BY <2>1 DEF Served, Marked
<1>1. source'[s] = x /\ \A t \in Streams : t # s => source'[t] = source[t]
  BY <1>0
<1>2. \A t \in Streams : t # s => source[t].conn # c
  BY <1>0 DEF Streaming, ServingOK, Serves
<1>3. ServingOK'
  <2> SUFFICES ASSUME NEW t \in Streams, NEW d \in Conns, source'[t].conn = d
               PROVE  Serves(t, source'[t], d, conn'[d], Log')
    BY DEF ServingOK
  <2>1. CASE t = s
    <3>1. source'[t] = x /\ d = c
      BY <1>0, <1>1, <2>1 DEF Marked
    <3>2. x.conn # 0
      BY <1>0, <1>1, <2>1, <3>1
    <3>3. /\ x.at # "append" => Ends(x.buffer) = {}
          /\ \E p \in Nat : Behind(c, p, conn'[c].read, x.buffer) /\ Held(c, Log') = Ended(c, p)
      BY <3>2
    <3>4. Serves(s, x, c, conn'[c], Log')
      BY <3>3 DEF Serves
    <3> QED BY <2>1, <3>1, <3>4
  <2>2. CASE t # s
    <3>1. source'[t] = source[t] /\ d # c /\ Serves(t, source[t], d, conn[d], Log)
      BY <1>1, <1>2, <2>2 DEF Streaming, ServingOK
    <3>2. conn'[d] = conn[d] /\ Held(d, Log') = Held(d, Log)
      BY <3>1
    <3> QED BY <3>1, <3>2 DEF Serves
  <2> QED BY <2>1, <2>2
<1>4. IdleOK'
  <2> SUFFICES ASSUME NEW t \in Streams
               PROVE  /\ source'[t].conn = 0 => source'[t].buffer = <<>> /\ source'[t].at \notin {"read", "append"}
                      /\ source'[t].at = "accept" => source'[t].conn = 0
    BY DEF IdleOK
  <2> QED BY <1>0, <1>1 DEF Streaming, IdleOK
<1>5. LogOK'
  <2> SUFFICES ASSUME NEW d \in Conns
               PROVE  FirstPart(d)' /\ (conn'[d].state \in Unserved => conn'[d].read = 0 /\ Held(d, Log') = {})
    BY DEF LogOK
  <2> QED BY DEF Streaming, LogOK, FirstPart
<1>6. WholeOK'
  <2> SUFFICES ASSUME NEW d \in Conns, faults' = 0, crashes' = 0, \A t \in Streams : source'[t].conn # d
               PROVE  Held(d, Log') = Ended(d, conn'[d].read)
    BY DEF WholeOK
  <2>1. CASE d = c
    BY <1>1, <2>1
  <2>2. CASE d # c
    <3>1. faults = 0 /\ crashes = 0 /\ \A t \in Streams : source[t].conn # d
      <4>1. d # 0
        BY DEF Marked
      <4> QED BY <1>0, <1>1, <2>2, <4>1
    <3> QED BY <2>2, <3>1 DEF Streaming, WholeOK
  <2> QED BY <2>1, <2>2
<1> QED BY <1>3, <1>4, <1>5, <1>6 DEF Streaming

(* The log is a sequence of records, and append_batch adds to its end.      *)
LEMMA LogTypes ==
  ASSUME IndInv
  PROVE  Log \in Seq(Text) /\ stored \in Seq(Text) /\ queued \in Seq(Text) /\ Log \o <<>> = Log
<1>1. stored \in Seq(Text) /\ queued \in Seq(Text)
  BY DEF IndInv, Typed, Records
<1>2. stored \o queued \in Seq(Text)
  BY <1>1, ConcatProperties
<1> QED BY <1>1, <1>2, ConcatEmptySeq DEF Log

(* What the engine takes goes behind its log.                              *)
LEMMA LogTakes ==
  ASSUME IndInv, NEW records \in Seq(Text), Take(records), UNCHANGED stored,
         main \notin Stopped \cup {"boot", "return"}
  PROVE  Log' = Log \o records
<1>1. queued' = queued \o records
  BY DEF IndInv, EngineOK, Take
<1>2. stored \o (queued \o records) = (stored \o queued) \o records
  <2>1. stored \in Seq(Text) /\ queued \in Seq(Text)
    BY LogTypes
  <2> QED BY ONLY SMTT(30), <2>1, records \in Seq(Text), ConcatAssociative
<1> QED BY <1>1, <1>2 DEF Log

(* A working source works while the engine is up.                           *)
LEMMA WorksUp ==
  ASSUME IndInv, NEW s \in Sources, source[s].at # "done"
  PROVE  main \notin NotStarted /\ main \notin Stopped \cup {"boot", "return"}
BY PastPlaces DEF IndInv, Awaited, NotStarted

(* An accepted connection starts with nothing read and nothing appended.    *)
LEMMA AcceptStreams ==
  ASSUME IndInv, Marked, Streaming, NEW s \in Streams, NEW c \in Conns, Accept(s, c)
  PROVE  Streaming'
<1> DEFINE full == options.limit > 0 /\ source[s].served >= options.limit
           x == IF full THEN [source[s] EXCEPT !.at = Again("accept")]
                ELSE [source[s] EXCEPT !.at = Again("read"), !.conn = c, !.served = source[s].served + 1]
           to == IF full \/ stopping THEN "left" ELSE "open"
<1>0. /\ source \in [Sources -> Served] /\ s \in Sources /\ conn \in [Conns -> Peer] /\ source[s] \in Served
      /\ Wire[c] \in Seq(Int)
  BY PeerTypes DEF IndInv, Typed, SourceType, ConnType, Streams, Sources
<1>1. /\ source[s].at = "accept" /\ Via[c] = s /\ conn[c].state = "queued"
      /\ conn' = [conn EXCEPT ![c].state = to] /\ source' = [source EXCEPT ![s] = x]
      /\ UNCHANGED <<main, stored, queued, faults, crashes>>
  BY DEF Accept, StreamStep, history
<1>2. main \notin NotStarted
  BY <1>0, <1>1, WorksUp
<1>3. source[s].conn = 0 /\ source[s].buffer = <<>>
  BY <1>1 DEF Streaming, IdleOK
<1>4. FirstPart(c) /\ conn[c].read = 0 /\ Held(c, Log) = {}
  BY <1>1 DEF Streaming, LogOK, Unserved
<1>5. Log' = Log
  BY <1>1 DEF Log
<1>6. to \notin Unserved
  BY DEF Unserved
<1> HIDE DEF to
<1>7. conn'[c].read = 0 /\ conn'[c].state \notin Unserved /\ \A d \in Conns : d # c => conn'[d] = conn[d]
  BY <1>0, <1>1, <1>4, <1>6 DEF Peer
<1>8. Behind(c, 0, 0, <<>>) /\ Ended(c, 0) = {}
  <2>1. SubSeq(Wire[c], 0 + 1, 0) = <<>>
    BY <1>0, SubSeqEmpty
  <2>2. Len(Wire[c]) \in Nat
    BY <1>0
  <2>3. 0 \in 0..Len(Wire[c])
    BY <2>2
  <2>4. Ended(c, 0) = {i \in 1..0 : Wire[c][i] > 0}
    BY <2>3, EndedAt
  <2> QED BY <2>1, <2>3, <2>4 DEF Behind
<1>9. Ends(<<>>) = {}
  BY DEF Ends
<1>10. \/ /\ x.conn = c /\ x.at # "accept" /\ (x.at # "append" => Ends(x.buffer) = {})
          /\ \E p \in Nat : Behind(c, p, conn'[c].read, x.buffer) /\ Held(c, Log') = Ended(c, p)
       \/ /\ x.conn = 0 /\ x.buffer = <<>> /\ x.at \notin {"read", "append"}
          /\ faults' = 0 /\ crashes' = 0 => Held(c, Log') = Ended(c, conn'[c].read)
  <2>1. CASE full
    <3>1. x = [source[s] EXCEPT !.at = Again("accept")]
      BY <2>1
    <3> HIDE DEF x, full
    <3>2. x.conn = 0 /\ x.buffer = <<>> /\ x.at \notin {"read", "append"}
      BY <1>0, <1>3, <3>1, AgainCases DEF Served
    <3> QED BY <1>4, <1>5, <1>7, <1>8, <3>2
  <2>2. CASE ~full
    <3>1. x = [source[s] EXCEPT !.at = Again("read"), !.conn = c, !.served = source[s].served + 1]
      BY <2>2
    <3> HIDE DEF x, full
    <3>2. x.conn = c /\ x.buffer = <<>> /\ x.at \in {"read", "done"}
      BY <1>0, <1>3, <3>1, AgainCases DEF Served
    <3> QED BY <1>4, <1>5, <1>7, <1>8, <1>9, <3>2
  <2> QED BY <2>1, <2>2
<1> HIDE DEF x
<1>11. \A d \in Conns : InOrder(d, Log)
  BY DEF Streaming, LogOK, FirstPart
<1> QED BY <1>1, <1>2, <1>3, <1>4, <1>5, <1>7, <1>10, <1>11, StreamMoves

(* What is known of a connection that a source reads.                       *)
LEMMA Reading ==
  ASSUME IndInv, Streaming, NEW s \in Streams, source[s].conn # 0
  PROVE  /\ s \in Sources /\ source[s] \in Served /\ source[s].conn \in Conns
         /\ source[s].at # "done" => main \notin NotStarted /\ main \notin Stopped \cup {"boot", "return"}
         /\ Serves(s, source[s], source[s].conn, conn[source[s].conn], Log)
<1>1. s \in Sources /\ source[s] \in Served /\ source[s].conn \in Conns
  BY SourceTypes DEF Streams, Sources
<1> QED BY <1>1, WorksUp DEF Streaming, ServingOK

(* A read adds to the buffer what it adds to what was read.                 *)
LEMMA ReadStreams ==
  ASSUME IndInv, Marked, Streaming, NEW s \in Streams, source[s].conn # 0,
         NEW n \in 1..Len(Wire[source[s].conn]), Read(s, n)
  PROVE  Streaming'
<1> DEFINE c == source[s].conn
           buffer == source[s].buffer \o SubSeq(Wire[c], conn[c].read + 1, conn[c].read + n)
           at == IF Ends(buffer) # {} THEN "append" ELSE Again("read")
           x == [source[s] EXCEPT !.buffer = buffer, !.at = at]
<1>0. /\ s \in Sources /\ source[s] \in Served /\ c \in Conns
      /\ source[s].at = "read" => main \notin NotStarted
      /\ Serves(s, source[s], c, conn[c], Log)
  BY Reading
<1>1. /\ source[s].at = "read" /\ conn[c].read + n <= conn[c].sent
      /\ conn' = [conn EXCEPT ![c].read = conn[c].read + n]
      /\ UNCHANGED <<main, stored, queued, faults, crashes>>
  BY DEF Read, StreamStep, history
<1>t. source \in [Sources -> Served] /\ conn \in [Conns -> Peer]
  BY DEF IndInv, Typed, SourceType, ConnType
<1>2. source' = [source EXCEPT ![s] = x]
  BY <1>0, <1>t DEF Read
<1>3. conn[c].read \in Nat /\ n \in Nat /\ conn[c].read + n <= Len(Wire[c]) /\ conn[c].read + n \in Nat
      /\ conn[c].read <= conn[c].read + n
  <2>1. conn[c].read \in Nat /\ conn[c].sent \in Nat /\ conn[c].sent <= Len(Wire[c]) /\ Len(Wire[c]) \in Nat
    BY <1>0, PeerTypes
  <2> DEFINE read == conn[c].read
             sent == conn[c].sent
             length == Len(Wire[c])
  <2>2. n \in 1..length /\ read + n <= sent
    BY <1>1
  <2>3. read \in Nat /\ sent \in Nat /\ sent <= length /\ length \in Nat
    BY <2>1
  <2> HIDE DEF read, sent, length
  <2>4. read \in Nat /\ n \in Nat /\ read + n <= length /\ read + n \in Nat /\ read <= read + n
    BY <2>2, <2>3
  <2> QED BY <2>4 DEF read, length
<1>4. PICK p \in Nat : Behind(c, p, conn[c].read, source[s].buffer) /\ Held(c, Log) = Ended(c, p)
  BY <1>0 DEF Serves
<1>5. Behind(c, p, conn[c].read + n, buffer)
  BY <1>0, <1>3, <1>4, ReadOn
<1>6. Via[c] = s /\ conn[c].state \notin Unserved
  BY <1>0 DEF Serves
<1>7. Log' = Log
  BY <1>1 DEF Log
<1>8. FirstPart(c) /\ \A d \in Conns : InOrder(d, Log)
  BY <1>0 DEF Streaming, LogOK, FirstPart
<1>9. Ended(c, conn[c].read) \subseteq Ended(c, conn[c].read + n)
  BY <1>0, <1>3, EndedMore
<1>10. at # "accept" /\ (at # "append" => Ends(buffer) = {})
  BY AgainCases
<1> HIDE DEF c, at, buffer
<1>11. conn'[c].read = conn[c].read + n /\ conn'[c].state \notin Unserved
       /\ \A d \in Conns : d # c => conn'[d] = conn[d]
  BY <1>0, <1>1, <1>6, <1>t DEF Peer
<1>12. x.conn = c /\ x.buffer = buffer /\ x.at = at
  BY <1>0 DEF Served, c
<1> HIDE DEF x
<1>13. Held(c, Log') \subseteq Ended(c, conn'[c].read)
  BY <1>7, <1>8, <1>9, <1>11 DEF FirstPart
<1>14. /\ x.conn = c /\ x.at # "accept" /\ (x.at # "append" => Ends(x.buffer) = {})
       /\ \E e \in Nat : Behind(c, e, conn'[c].read, x.buffer) /\ Held(c, Log') = Ended(c, e)
  BY <1>4, <1>5, <1>7, <1>10, <1>11, <1>12
<1>15. source[s].conn \in {0, c}
  BY DEF c
<1>16. \A i \in DOMAIN Wire[c] : \A j \in Held(c, Log') :
         i < j /\ Wire[c][i] > 0 => i \in Held(c, Log')
  BY <1>7, <1>8 DEF FirstPart
<1>17. main \notin NotStarted /\ UNCHANGED <<main, crashes>> /\ (faults' = 0 => faults = 0)
  BY <1>0, <1>1
<1>18. /\ \A d \in Conns : d # c => conn'[d] = conn[d] /\ Held(d, Log') = Held(d, Log)
       /\ \A d \in Conns : InOrder(d, Log')
  BY <1>7, <1>8, <1>11
<1>19. conn'[c].state \notin Unserved /\ c \in Conns /\ Via[c] = s
  BY <1>0, <1>6, <1>11
<1> QED BY <1>2, <1>13, <1>14, <1>15, <1>16, <1>17, <1>18, <1>19, StreamMoves

(* A source leaves its connection.                                          *)
LEMMA Leaves ==
  ASSUME IndInv, NEW s \in Streams, NEW c \in Conns, source[s].conn = c, Leave(s)
  PROVE  /\ conn'[c].read = conn[c].read /\ conn'[c].state \notin Unserved
         /\ \A d \in Conns : d # c => conn'[d] = conn[d]
<1>1. conn'[c] = [conn[c] EXCEPT !.state = "left"] /\ \A d \in Conns : d # c => conn'[d] = conn[d]
  BY DEF Leave
<1>2. conn[c] \in Peer
  BY PeerTypes
<1> QED BY <1>1, <1>2 DEF Peer, Unserved

(* At the end of a stream all its complete lines have been appended, and    *)
(* after an append that failed the rest is left out.                        *)
LEMMA LeaveStreams ==
  ASSUME IndInv, Marked, Streaming, NEW s \in Streams, NEW c \in Conns, source[s].conn = c, Leave(s),
         source[s].at # "done", UNCHANGED <<main, stored, queued, crashes>>,
         source[s].at # "append" \/ faults' # 0, faults' = 0 => faults = 0,
         NEW x, source' = [source EXCEPT ![s] = x],
         x.conn = 0, x.buffer = <<>>, x.at \in {"accept", "done"}
  PROVE  Streaming'
<1>0. c # 0 /\ conn[c].read \in Nat /\ Wire[c] \in Seq(Int)
  BY PeerTypes DEF Marked
<1>1. main \notin NotStarted /\ Serves(s, source[s], c, conn[c], Log)
  BY <1>0, Reading
<1>2. Log' = Log
  BY DEF Log
<1>3. FirstPart(c) /\ \A d \in Conns : InOrder(d, Log)
  BY DEF Streaming, LogOK, FirstPart
<1>4. /\ conn'[c].read = conn[c].read /\ conn'[c].state \notin Unserved
      /\ \A d \in Conns : d # c => conn'[d] = conn[d]
  BY Leaves
<1>5. faults' = 0 => Held(c, Log) = Ended(c, conn[c].read)
  <2> SUFFICES ASSUME faults' = 0 PROVE Held(c, Log) = Ended(c, conn[c].read)
    OBVIOUS
  <2>1. PICK p \in Nat : Behind(c, p, conn[c].read, source[s].buffer) /\ Held(c, Log) = Ended(c, p)
    BY <1>1 DEF Serves
  <2>2. Ends(source[s].buffer) = {}
    BY <1>1 DEF Serves
  <2>3. Ended(c, conn[c].read) = Ended(c, p)
    BY <2>1, <2>2, EndedBehind
  <2> QED BY <2>1, <2>3
<1>6. Via[c] = s
  BY <1>1 DEF Serves
<1>7. Held(c, Log') \subseteq Ended(c, conn'[c].read)
  BY <1>2, <1>3, <1>4 DEF FirstPart
<1>8. \A i \in DOMAIN Wire[c] : \A j \in Held(c, Log') :
        i < j /\ Wire[c][i] > 0 => i \in Held(c, Log')
  BY <1>2, <1>3 DEF FirstPart
<1>9. /\ x.conn = 0 /\ x.buffer = <<>> /\ x.at \notin {"read", "append"}
      /\ faults' = 0 /\ crashes' = 0 => Held(c, Log') = Ended(c, conn'[c].read)
  BY <1>2, <1>4, <1>5
<1>10. /\ \A d \in Conns : d # c => conn'[d] = conn[d] /\ Held(d, Log') = Held(d, Log)
       /\ \A d \in Conns : InOrder(d, Log')
  BY <1>2, <1>3, <1>4
<1>11. source[s].conn \in {0, c} /\ UNCHANGED <<main, crashes>>
  OBVIOUS
<1> QED BY <1>1, <1>4, <1>6, <1>7, <1>8, <1>9, <1>10, <1>11, StreamMoves

(* An append takes the lines from the front of the buffer.                  *)
LEMMA AppendStreams ==
  ASSUME IndInv, Marked, Streaming, NEW s \in Streams, AppendSucceeds(s)
  PROVE  Streaming'
<1> DEFINE c == source[s].conn
           buffer == source[s].buffer
           rest == After(buffer)
           at == IF Ends(rest) # {} THEN "append" ELSE Again("read")
           x == [source[s] EXCEPT !.buffer = rest, !.at = at]
           batch == FirstLines(buffer)
<1>1. /\ source[s].at = "append" /\ Take(Batch(s)) /\ source' = [source EXCEPT ![s] = Appended(s)]
      /\ UNCHANGED <<main, stored, conn, faults, crashes>>
  BY DEF AppendSucceeds, history
<1>2. c # 0
  BY <1>1 DEF Streaming, IdleOK
<1>3. /\ s \in Sources /\ source[s] \in Served /\ c \in Conns /\ main \notin NotStarted
      /\ main \notin Stopped \cup {"boot", "return"} /\ Serves(s, source[s], c, conn[c], Log)
  BY <1>1, <1>2, Reading
<1>4. Batch(s) = batch /\ Appended(s) = x
  BY DEF Batch, Appended, Streams
<1>o. options \in Options
  BY DEF IndInv, Typed, Control
<1>5. batch \in Seq(Text) /\ Log' = Log \o batch
  <2>1. Batch(s) \in Seq(Text)
    BY <1>3, BatchType
  <2> QED BY <1>1, <1>3, <1>4, <2>1, LogTakes
<1>6. PICK p \in Nat : Behind(c, p, conn[c].read, buffer) /\ Held(c, Log) = Ended(c, p)
  BY <1>3 DEF Serves
<1> DEFINE end == p + LineEnd(buffer, Count(buffer))
<1>7. /\ p <= end /\ Behind(c, end, conn[c].read, rest)
      /\ Held(c, batch) = {i \in (p + 1)..end : Wire[c][i] > 0}
      /\ \A d \in Conns : InOrder(d, batch) /\ (d # c => Held(d, batch) = {})
  BY <1>o, <1>3, <1>6, BatchOfStream
<1>8. Via[c] = s /\ conn[c].state \notin Unserved
  BY <1>3 DEF Serves
<1>9. at # "accept" /\ (at # "append" => Ends(rest) = {})
  BY AgainCases
<1>10. /\ Wire[c] \in Seq(Int) /\ Len(Wire[c]) \in Nat /\ conn[c].read \in Nat /\ conn[c].read <= Len(Wire[c])
  <2>1. /\ Wire[c] \in Seq(Int) /\ Len(Wire[c]) \in Nat /\ conn[c].read \in Nat
        /\ conn[c].read <= conn[c].sent /\ conn[c].sent <= Len(Wire[c]) /\ conn[c].sent \in Nat
    BY <1>3, PeerTypes
  <2> QED BY <2>1
<1> HIDE DEF c, at, rest, batch, end, buffer
<1>11. /\ p \in 0..Len(Wire[c]) /\ (p = 0 \/ Wire[c][p] = NL)
       /\ end \in 0..Len(Wire[c]) /\ (end = 0 \/ Wire[c][end] = NL) /\ end \in Nat /\ end <= conn[c].read
  BY <1>6, <1>7, <1>10 DEF Behind
<1>12. Ended(c, p) = {i \in 1..p : Wire[c][i] > 0} /\ Ended(c, end) = {i \in 1..end : Wire[c][i] > 0}
  BY <1>3, <1>11, EndedAt
<1>13. Held(c, Log') = Ended(c, end)
  <2>1. Held(c, Log') = Held(c, Log) \cup Held(c, batch)
    BY <1>3, <1>5, LogTypes, HeldMore
  <2>2. \A i : i \in 1..end <=> i \in 1..p \/ i \in (p + 1)..end
    BY <1>7, <1>11
  <2> QED BY <1>6, <1>7, <1>12, <2>1, <2>2
<1>14. \A d \in Conns : d # c => Held(d, Log') = Held(d, Log)
  <2> TAKE d \in Conns
  <2> HAVE d # c
  <2>1. Held(d, Log') = Held(d, Log) \cup Held(d, batch)
    BY <1>5, LogTypes, HeldMore
  <2>2. Held(d, batch) = {}
    BY <1>7
  <2> QED BY <2>1, <2>2
<1>15. \A d \in Conns : InOrder(d, Log')
  <2> TAKE d \in Conns
  <2>1. InOrder(d, Log) /\ InOrder(d, batch)
    BY <1>7 DEF Streaming, LogOK, FirstPart
  <2>2. \A i \in Held(d, Log) : \A j \in Held(d, batch) : i < j
    <3>1. CASE d = c
      <4>1. \A i \in 1..p : \A j \in (p + 1)..end : i < j
        BY <1>11
      <4> QED BY <1>6, <1>7, <1>12, <3>1, <4>1
    <3>2. CASE d # c
      BY <1>7, <3>2
    <3> QED BY <3>1, <3>2
  <2> QED BY <1>5, <2>1, <2>2, LogTypes, InOrderMore
<1>16. Held(c, Log') \subseteq Ended(c, conn'[c].read)
  BY <1>1, <1>3, <1>10, <1>11, <1>13, EndedMore
<1>17. \A i \in DOMAIN Wire[c] : \A j \in Held(c, Log') :
         i < j /\ Wire[c][i] > 0 => i \in Held(c, Log')
  BY <1>3, <1>10, <1>11, <1>13, EndedMore
<1>18. x.conn = c /\ x.buffer = rest /\ x.at = at
  BY <1>3 DEF Served, c
<1>19. source' = [source EXCEPT ![s] = x]
  BY <1>1, <1>4
<1> HIDE DEF x
<1>20. /\ x.conn = c /\ x.at # "accept" /\ (x.at # "append" => Ends(x.buffer) = {})
       /\ \E e \in Nat : Behind(c, e, conn'[c].read, x.buffer) /\ Held(c, Log') = Ended(c, e)
  BY <1>1, <1>7, <1>9, <1>11, <1>13, <1>18
<1>21. source[s].conn \in {0, c}
  BY DEF c
<1>22. main \notin NotStarted /\ UNCHANGED <<main, crashes>> /\ (faults' = 0 => faults = 0)
  BY <1>1, <1>3
<1>23. \A d \in Conns : d # c => conn'[d] = conn[d] /\ Held(d, Log') = Held(d, Log)
  BY <1>1, <1>14
<1>24. conn'[c].state \notin Unserved /\ c \in Conns /\ Via[c] = s
  BY <1>1, <1>3, <1>8
<1> QED BY <1>15, <1>16, <1>17, <1>19, <1>20, <1>21, <1>22, <1>23, <1>24, StreamMoves

(* What the socket sources do keeps it.                                     *)
LEMMA SocketStreams ==
  ASSUME IndInv, Marked, Streaming, NEW s \in Streams, SourceStep(s)
  PROVE  Streaming'
<1>0. s \in Sources /\ source \in [Sources -> Served] /\ source[s] \in Served
      /\ source[s].conn \in Conns \cup {0} /\ faults \in Nat
  BY SourceTypes DEF IndInv, Typed, SourceType, Counters, Streams, Sources
<1>1. CASE AppendSucceeds(s)
  BY <1>1, AppendStreams
<1>2. CASE AppendFails(s)
  <2> DEFINE x == [source[s] EXCEPT !.buffer = <<>>, !.conn = 0, !.at = Again("accept")]
  <2>1. /\ source[s].at = "append" /\ faults' = faults + 1 /\ source' = [source EXCEPT ![s] = Refused(s)]
        /\ Leave(s) /\ UNCHANGED <<main, stored, queued, crashes>>
    BY <1>2 DEF AppendFails
  <2>2. source[s].conn # 0
    BY <2>1 DEF Streaming, IdleOK
  <2>3. Refused(s) = x
    BY DEF Refused, Streams
  <2>4. x.conn = 0 /\ x.buffer = <<>> /\ x.at \in {"accept", "done"}
    BY <1>0, AgainCases DEF Served
  <2> HIDE DEF x
  <2>5. source' = [source EXCEPT ![s] = x] /\ faults' # 0 /\ source[s].at # "done"
    BY <1>0, <2>1, <2>3
  <2>6. source[s].conn \in Conns
    BY <1>0, <2>2
  <2> QED BY <2>1, <2>4, <2>5, <2>6, LeaveStreams
<1>3. CASE \E c \in Conns : Accept(s, c)
  BY <1>3, AcceptStreams
<1>4. CASE source[s].conn # 0 /\ \E n \in 1..Len(Wire[source[s].conn]) : Read(s, n)
  BY <1>4, ReadStreams
<1>5. CASE source[s].conn # 0 /\ ReadEnds(s)
  <2> DEFINE x == [source[s] EXCEPT !.at = Again("accept"), !.conn = 0, !.buffer = <<>>]
  <2>1. /\ source[s].at = "read" /\ Leave(s)
        /\ source' = [source EXCEPT ![s].at = Again("accept"), ![s].conn = 0, ![s].buffer = <<>>]
        /\ UNCHANGED <<main, stored, queued, crashes, faults>>
    BY <1>5 DEF ReadEnds, StreamStep, history
  <2>2. source' = [source EXCEPT ![s] = x]
    BY <1>0, <2>1
  <2>3. x.conn = 0 /\ x.buffer = <<>> /\ x.at \in {"accept", "done"}
    BY <1>0, AgainCases DEF Served
  <2> HIDE DEF x
  <2>4. source[s].conn \in Conns
    BY <1>0, <1>5
  <2>5. source[s].at # "append" /\ source[s].at # "done" /\ (faults' = 0 => faults = 0)
    BY <2>1
  <2> QED BY <2>1, <2>2, <2>3, <2>4, <2>5, LeaveStreams
<1> QED BY <1>1, <1>2, <1>3, <1>4, <1>5 DEF SourceStep, Streams

-----------------------------------------------------------------------------
(* A log to which nothing, or nothing of a connection, is added.            *)
LEMMA LogSame ==
  ASSUME Streaming, Log' = Log
  PROVE  \A c \in Conns : InOrder(c, Log') /\ Held(c, Log') = Held(c, Log)
BY DEF Streaming, LogOK, FirstPart

(* The engine takes records of no connection.                              *)
LEMMA LogForeign ==
  ASSUME IndInv, Streaming, NEW records \in Seq(Text), Take(records), UNCHANGED stored,
         main \notin Stopped \cup {"boot", "return"}, \A k \in DOMAIN records : Foreign(records[k])
  PROVE  \A c \in Conns : InOrder(c, Log') /\ Held(c, Log') = Held(c, Log)
<1> SUFFICES ASSUME NEW c \in Conns PROVE InOrder(c, Log') /\ Held(c, Log') = Held(c, Log)
  OBVIOUS
<1>1. Log' = Log \o records
  BY LogTakes
<1>2. InOrder(c, Log) /\ Log \in Seq(Text)
  BY LogTypes DEF Streaming, LogOK, FirstPart
<1>3. Held(c, Log \o records) = Held(c, Log) /\ InOrder(c, Log \o records)
  BY <1>2, ForeignMore
<1> QED BY <1>1, <1>3

(* A step that leaves the connections and the socket sources alone.         *)
LEMMA StreamsKept ==
  ASSUME IndInv, Streaming, \A s \in Streams : source'[s] = source[s],
         \A c \in Conns : conn'[c] = conn[c],
         \A c \in Conns : InOrder(c, Log') /\ Held(c, Log') = Held(c, Log),
         faults' = 0 /\ crashes' = 0 => faults = 0 /\ crashes = 0,
         main' \in NotStarted => main \in NotStarted
  PROVE  Streaming'
<1>1. source \in [Sources -> Served]
  BY DEF IndInv, Typed, SourceType
<1> QED BY <1>1, StreamsStay

(* What standard input, datagrams and files do keeps it.                    *)
LEMMA LocalStreams ==
  ASSUME IndInv, Streaming, ForeignOK, 0 \notin Conns, NEW s \in Sources, s \notin Streams, SourceStep(s)
  PROVE  Streaming'
<1>0. /\ source \in [Sources -> Served] /\ faults \in Nat /\ source[s].at \in Stages[s]
      /\ s \in {"stdin", "udp", "file"} /\ Streams \subseteq Sources
  BY SourceTypes DEF IndInv, Typed, SourceType, Counters, Streams, Sources
<1>m. UNCHANGED <<main, stored, crashes>>
  BY SourceFrame
<1>1. CASE AppendSucceeds(s)
  <2>1. /\ source[s].at = "append" /\ Take(Batch(s)) /\ source' = [source EXCEPT ![s] = Appended(s)]
        /\ UNCHANGED <<conn, faults>>
    BY <1>1 DEF AppendSucceeds, history
  <2>2. s \in {"stdin", "udp"}
    BY <1>0, <2>1, AllStages
  <2>3. Batch(s) \in Seq(Text) /\ Batch(s) = source[s].lines
    BY <2>2, BatchType DEF Batch
  <2>4. \A k \in DOMAIN Batch(s) : Foreign(Batch(s)[k])
    BY <2>2, <2>3 DEF ForeignOK, AllForeign
  <2>5. main \notin Stopped \cup {"boot", "return"}
    BY <2>1, WorksUp
  <2>6. \A c \in Conns : InOrder(c, Log') /\ Held(c, Log') = Held(c, Log)
    BY <1>m, <2>1, <2>3, <2>4, <2>5, LogForeign
  <2>7. \A t \in Streams : source'[t] = source[t]
    BY <1>0, <2>1
  <2> QED BY <1>m, <2>1, <2>6, <2>7, StreamsKept
<1>2. CASE AppendFails(s)
  <2>1. /\ source[s].at = "append" /\ faults' = faults + 1 /\ source' = [source EXCEPT ![s] = Refused(s)]
        /\ Leave(s) /\ UNCHANGED queued
    BY <1>2 DEF AppendFails
  <2>2. s \in {"stdin", "udp"}
    BY <1>0, <2>1, AllStages
  <2>3. source[s].conn = 0
    BY <2>2 DEF ForeignOK
  <2>4. \A c \in Conns : conn'[c] = conn[c]
    BY <2>1, <2>3 DEF Leave
  <2>5. faults' # 0 /\ Log' = Log
    BY <1>0, <1>m, <2>1 DEF Log
  <2>6. \A t \in Streams : source'[t] = source[t]
    BY <1>0, <2>1
  <2> QED BY <1>m, <2>4, <2>5, <2>6, LogSame, StreamsKept
<1>3. CASE (s = "udp" /\ Receive) \/ (s = "stdin" /\ (GetLine \/ GetLineEnds)) \/ (s = "file" /\ PollEnds)
  <2>1. UNCHANGED <<conn, queued, faults>>
    BY <1>3 DEF Receive, GetLine, GetLineEnds, PollEnds, StreamStep, history
  <2>2. \A t \in Streams : source'[t] = source[t]
    BY <1>0, <1>3 DEF Receive, GetLine, GetLineEnds, PollEnds, Streams
  <2>3. Log' = Log
    BY <1>m, <2>1 DEF Log
  <2> QED BY <1>m, <2>1, <2>2, <2>3, LogSame, StreamsKept
<1> QED BY <1>0, <1>1, <1>2, <1>3 DEF SourceStep, Streams

(* The answers to requests keep it.                                         *)
LEMMA AnswerStreams ==
  ASSUME IndInv, Marked, Streaming, ForeignOK, NEW r \in Requests, Answer(r)
  PROVE  Streaming'
<1>0. /\ faults \in Nat /\ request[r].body \in Body /\ options \in Options
  BY DEF IndInv, Typed, Counters, RequestType, Asked, Control
<1>m. UNCHANGED <<main, stored, crashes, conn, source>>
  BY AnswerFrame DEF streamVars
<1>1. CASE IngestSucceeds(r)
  <2> DEFINE records == IngestMessages(request[r].body)
  <2>1. request[r].at = "append" /\ Take(records) /\ UNCHANGED faults
    BY <1>1 DEF IngestSucceeds
  <2>2. records \in Seq(Text)
    BY <1>0, IngestType
  <2>3. request[r].body \in options.bodies
    BY <2>1 DEF ForeignOK
  <2>4. \A c \in Conns : \A i \in DOMAIN Wire[c] : <<Wire[c][i]>> \notin ToSet(records)
    BY <1>0, <2>3 DEF Marked
  <2> HIDE DEF records
  <2>5. \A k \in DOMAIN records : Foreign(records[k])
    BY <2>4 DEF ToSet, Foreign
  <2>6. main \notin Stopped \cup {"boot", "return"}
    BY <2>1 DEF IndInv, RequestsOK
  <2>7. \A c \in Conns : InOrder(c, Log') /\ Held(c, Log') = Held(c, Log)
    BY <1>m, <2>1, <2>2, <2>5, <2>6, LogForeign
  <2> QED BY <1>m, <2>1, <2>7, StreamsKept
<1>2. CASE IngestFails(r)
  <2>1. faults' # 0 /\ Log' = Log
    BY <1>0, <1>2, <1>m DEF IngestFails, Log
  <2> QED BY <1>m, <2>1, LogSame, StreamsKept
<1>3. CASE Handle(r)
  <2>1. UNCHANGED faults /\ Log' = Log
    BY <1>3, <1>m DEF Handle, Log
  <2> QED BY <1>m, <2>1, LogSame, StreamsKept
<1> QED BY <1>1, <1>2, <1>3 DEF Answer

(* The world outside opens and closes connections and sends.                *)
LEMMA WorldStreams ==
  ASSUME IndInv, Streaming, WorldQuiet
  PROVE  Streaming'
<1>0. UNCHANGED <<main, stored, queued, source, faults, crashes>>
  BY WorldFrame DEF history
<1>1. Log' = Log /\ source \in [Sources -> Served] /\ conn \in [Conns -> Peer]
  BY <1>0 DEF Log, IndInv, Typed, SourceType, ConnType
<1>2. \A c \in Conns : /\ conn'[c].read = conn[c].read
                       /\ conn'[c].state \in Unserved <=> conn[c].state \in Unserved
  <2>1. CASE UNCHANGED conn
    BY <2>1
  <2>2. ASSUME NEW c \in Conns, Connects(c)
        PROVE  \A d \in Conns : /\ conn'[d].read = conn[d].read
                                /\ conn'[d].state \in Unserved <=> conn[d].state \in Unserved
    <3>1. conn' = [conn EXCEPT ![c].state = "queued"] /\ conn[c].state = "none"
      BY <2>2 DEF Connects
    <3>2. conn'[c].read = conn[c].read /\ conn'[c].state = "queued"
          /\ \A d \in Conns : d # c => conn'[d] = conn[d]
      BY <1>1, <3>1 DEF Peer
    <3> QED BY <3>1, <3>2 DEF Unserved
  <2>3. ASSUME NEW c \in Conns, Sends(c) \/ Closes(c, "end") \/ Closes(c, "reset")
        PROVE  \A d \in Conns : /\ conn'[d].read = conn[d].read
                                /\ conn'[d].state \in Unserved <=> conn[d].state \in Unserved
    <3>1. conn'[c].read = conn[c].read /\ conn'[c].state = conn[c].state
          /\ \A d \in Conns : d # c => conn'[d] = conn[d]
      BY <1>1, <2>3 DEF Peer, Sends, Closes
    <3> QED BY <3>1
  <2> QED BY <2>1, <2>2, <2>3 DEF WorldQuiet, Signal, Types, EndsInput, Arrives, Posts
<1> QED BY <1>0, <1>1, <1>2, LogSame, StreamsStay

(* When the process ends, what was queued is lost, and nothing more is read *)
(* of its connections; when it returns, nothing is queued and no source     *)
(* holds a complete line.                                                   *)
LEMMA GoneStreams ==
  ASSUME IndInv, Marked, Streaming, BlameOK, Return \/ MainThrows \/ Crash
  PROVE  Streaming'
<1>0. /\ source' = [s \in Sources |-> Off] /\ queued' = <<>> /\ UNCHANGED <<stored, faults>>
      /\ conn' = [c \in Conns |-> IF conn[c].state \in {"queued", "open"}
                                    THEN [conn[c] EXCEPT !.state = "left"] ELSE conn[c]]
  BY GoneFrame DEF Gone
<1>1. Log' = stored /\ stored \in Seq(Text) /\ queued \in Seq(Text) /\ Log = stored \o queued
  <2>1. stored \in Seq(Text) /\ queued \in Seq(Text)
    BY LogTypes
  <2>2. stored \o <<>> = stored
    BY <2>1, ConcatEmptySeq
  <2> QED BY <1>0, <2>1, <2>2 DEF Log
<1>2. \A c \in Conns : /\ conn'[c].read = conn[c].read
                       /\ conn'[c].state \in Unserved => conn[c].state \in Unserved
  <2> TAKE c \in Conns
  <2>1. conn[c] \in Peer
    BY PeerTypes
  <2> QED BY <1>0, <2>1 DEF Peer, Unserved
<1>3. \A s \in Streams : source'[s] = Off
  BY <1>0 DEF Streams, Sources
<1>4. ServingOK'
  <2>1. \A s \in Streams : \A c \in Conns : source'[s].conn # c
    BY <1>3 DEF Marked, Off
  <2> QED BY <2>1 DEF ServingOK
<1>5. IdleOK'
  BY <1>3 DEF IdleOK, Off
<1>6. LogOK'
  <2> SUFFICES ASSUME NEW c \in Conns
               PROVE  FirstPart(c)' /\ (conn'[c].state \in Unserved => conn'[c].read = 0 /\ Held(c, Log') = {})
    BY DEF LogOK
  <2>1. FirstPart(c) /\ (conn[c].state \in Unserved => conn[c].read = 0 /\ Held(c, Log) = {})
    BY DEF Streaming, LogOK
  <2>2. /\ InOrder(c, stored) /\ Held(c, stored) \subseteq Held(c, Log)
        /\ \A i \in Held(c, Log) : \A j \in Held(c, stored) : i < j => i \in Held(c, stored)
    <3>1. InOrder(c, stored \o queued)
      BY <1>1, <2>1 DEF FirstPart
    <3> QED BY <1>1, <3>1, CutLog
  <2>3. FirstPart(c)'
    <3>1. InOrder(c, Log') /\ Held(c, Log') \subseteq Ended(c, conn'[c].read)
      BY <1>1, <1>2, <2>1, <2>2 DEF FirstPart
    <3>2. \A i \in DOMAIN Wire[c] : \A j \in Held(c, Log') :
            i < j /\ Wire[c][i] > 0 => i \in Held(c, Log')
      BY <1>1, <2>1, <2>2 DEF FirstPart
    <3> QED BY <3>1, <3>2 DEF FirstPart
  <2> QED BY <1>1, <1>2, <2>1, <2>2, <2>3
<1>7. WholeOK'
  <2> SUFFICES ASSUME NEW c \in Conns, faults' = 0, crashes' = 0
               PROVE  Held(c, Log') = Ended(c, conn'[c].read)
    BY DEF WholeOK
  <2>1. faults = 0 /\ faults \in Nat /\ crashes \in Nat
    BY <1>0 DEF IndInv, Typed, Counters
  <2>2. ~Crash
    BY <2>1 DEF Crash
  <2>3. ~MainThrows
    <3> SUFFICES ASSUME MainThrows PROVE FALSE
      OBVIOUS
    <3>1. CASE pending /\ Go("check", "failed_migration")
      <4>1. torn
        BY <3>1 DEF Go, IndInv, MigrationOK
      <4> QED BY <4>1 DEF BlameOK, MainThrows
    <3>2. CASE \E s \in Sources : source[s].at = "failed" /\ Go(s, "failed")
      BY <2>1, <3>2 DEF BlameOK
    <3> QED BY <3>1, <3>2 DEF MainThrows
  <2>4. main = "return" /\ crashes = 0
    BY <2>2, <2>3 DEF Return, Go
  <2>5. queued = <<>> /\ \A s \in Streams : source[s].at = "done"
    BY <2>4, PastPlaces DEF IndInv, TakenOK, Awaited, Streams, Sources
  <2>6. Log' = Log
    BY <1>0, <2>5 DEF Log
  <2>7. Held(c, Log) = Ended(c, conn[c].read)
    <3>1. CASE \A s \in Streams : source[s].conn # c
      BY <2>1, <2>4, <3>1 DEF Streaming, WholeOK
    <3>2. CASE \E s \in Streams : source[s].conn = c
      <4>1. PICK s \in Streams : source[s].conn = c
        BY <3>2
      <4>2. Serves(s, source[s], c, conn[c], Log)
        BY <4>1 DEF Streaming, ServingOK
      <4>3. PICK p \in Nat : Behind(c, p, conn[c].read, source[s].buffer) /\ Held(c, Log) = Ended(c, p)
        BY <4>2 DEF Serves
      <4>4. Ends(source[s].buffer) = {}
        BY <2>5, <4>2 DEF Serves
      <4> QED BY <4>3, <4>4, EndedBehind
    <3> QED BY <3>1, <3>2
  <2> QED BY <1>2, <2>6, <2>7
<1> QED BY <1>4, <1>5, <1>6, <1>7 DEF Streaming

(* StartSources finds the socket sources idle.                              *)
LEMMA StartStreams ==
  ASSUME IndInv, Marked, Streaming, StartSources
  PROVE  Streaming'
<1>0. /\ main = "sources" /\ main' \in {"load", "wait"} /\ UNCHANGED <<stored, queued, conn, faults, crashes>>
      /\ source' = [s \in Sources |-> IF s \in options.sources THEN [Off EXCEPT !.at = First[s]] ELSE Off]
  BY DEF StartSources, Go, history
<1>1. main \in NotStarted /\ main' \notin NotStarted
  BY <1>0 DEF NotStarted, Stopped
<1>2. \A s \in Streams : source'[s].conn = 0 /\ source'[s].buffer = <<>>
                         /\ source'[s].at \in {"done", "accept"}
  BY <1>0 DEF Streams, Sources, Off, First
<1>3. \A s \in Streams : source[s].conn = 0
  BY <1>1 DEF Streaming, IdleOK
<1>4. Log' = Log /\ 0 \notin Conns
  BY <1>0 DEF Log, Marked
<1>5. ServingOK'
  BY <1>2, <1>4 DEF ServingOK
<1>6. IdleOK'
  BY <1>1, <1>2 DEF IdleOK
<1>7. LogOK'
  BY <1>0, <1>4 DEF Streaming, LogOK, FirstPart
<1>8. WholeOK'
  <2>1. \A c \in Conns : \A s \in Streams : source[s].conn # c
    BY <1>3, <1>4
  <2> QED BY <1>0, <1>4, <2>1 DEF Streaming, WholeOK
<1> QED BY <1>5, <1>6, <1>7, <1>8 DEF Streaming

(* Every step keeps what is known of the streams,                           *)
LEMMA StreamingStep ==
  ASSUME IndInv, Marked, StreamInv, Next
  PROVE  Streaming'
<1>0. Streaming /\ BlameOK /\ ForeignOK /\ 0 \notin Conns
  BY DEF StreamInv, Marked
<1>k. ASSUME UNCHANGED <<source, conn, faults, crashes>>, Log' = Log,
             main' \in NotStarted => main \in NotStarted
      PROVE  Streaming'
  BY <1>0, <1>k, LogSame, StreamsKept
<1>s. ASSUME UNCHANGED <<stored, queued>> PROVE Log' = Log
  BY <1>s DEF Log
<1>e. ASSUME stored' = stored \o queued, queued' = <<>> PROVE Log' = Log
  BY <1>e, LogTypes DEF Log
<1>1. CASE MainQuiet
  <2>1. UNCHANGED <<source, conn, faults, crashes, stored, queued>>
    BY <1>1, MainFrame DEF streamVars, history
  <2>2. main' \in NotStarted => main \in NotStarted
    <3>1. CASE \E s \in Sources : AwaitSource(s)
      BY <3>1, PastPlaces DEF AwaitSource, Go
    <3> QED BY <1>1, <3>1 DEF MainQuiet, StartEngine, Listen, LoadLegacy, CheckPending, StorePending,
               RemoveLegacy, StartScanners, StopAsked, AwaitScanners, StopHttp, Go, NotStarted, Stopped
  <2> QED BY <1>k, <1>s, <2>1, <2>2
<1>2. CASE StartSources
  BY <1>0, <1>2, StartStreams
<1>3. CASE StopEngine
  <2>1. UNCHANGED <<source, conn, faults, crashes>> /\ stored' = stored \o queued /\ queued' = <<>>
        /\ main' = "return"
    BY <1>3 DEF StopEngine, Go, streamVars, history
  <2>2. main' \notin NotStarted
    BY <2>1 DEF NotStarted, Stopped
  <2> QED BY <1>e, <1>k, <2>1, <2>2
<1>4. CASE Return \/ MainThrows \/ Crash
  BY <1>0, <1>4, GoneStreams
<1>5. CASE Launch
  <2>1. UNCHANGED <<source, conn, faults, crashes, stored, queued>> /\ main \in NotStarted
    BY <1>5 DEF Launch, Outside, Running, NotStarted
  <2> QED BY <1>k, <1>s, <2>1
<1>6. CASE Scan
  <2>1. UNCHANGED <<source, conn, faults, crashes, stored, queued, main>>
    BY <1>6, ScanFrame DEF streamVars, history
  <2> QED BY <1>k, <1>s, <2>1
<1>7. CASE Flush
  <2>1. UNCHANGED <<source, conn, faults, crashes, main>> /\ stored' = stored \o queued /\ queued' = <<>>
    BY <1>7, FlushFrame DEF Flush, streamVars, history
  <2> QED BY <1>e, <1>k, <2>1
<1>8. CASE WorldQuiet
  BY <1>0, <1>8, WorldStreams
<1>9. CASE \E s \in Sources : SourceStep(s)
  <2> PICK s \in Sources : SourceStep(s)
    BY <1>9
  <2>1. CASE s \in Streams
    BY <1>0, <2>1, SocketStreams
  <2>2. CASE s \notin Streams
    BY <1>0, <2>2, LocalStreams
  <2> QED BY <2>1, <2>2
<1>10. CASE \E r \in Requests : Answer(r)
  BY <1>0, <1>10, AnswerStreams
<1> QED BY NextCases, <1>1, <1>2, <1>3, <1>4, <1>5, <1>6, <1>7, <1>8, <1>9, <1>10

(* ... what a failure follows from,                                         *)
LEMMA BlameStep ==
  ASSUME IndInv, StreamInv, Next
  PROVE  BlameOK'
<1>0. /\ \A s \in Sources : source[s].at = "failed" => faults # 0
      /\ torn => crashes # 0
      /\ faults \in Nat /\ crashes \in Nat /\ source \in [Sources -> Served]
  BY DEF StreamInv, BlameOK, IndInv, Typed, Counters, SourceType
<1>k. ASSUME UNCHANGED <<source, faults, crashes, torn>> PROVE BlameOK'
  BY <1>0, <1>k DEF BlameOK
<1>1. CASE MainQuiet
  BY <1>k, <1>1, MainFrame DEF streamVars, history
<1>2. CASE StartSources
  <2>1. /\ UNCHANGED <<faults, crashes, torn>>
        /\ source' = [s \in Sources |-> IF s \in options.sources THEN [Off EXCEPT !.at = First[s]] ELSE Off]
    BY <1>2 DEF StartSources, history
  <2>2. \A s \in Sources : source'[s].at # "failed"
    BY <2>1 DEF Off, First, Sources
  <2> QED BY <1>0, <2>1, <2>2 DEF BlameOK
<1>3. CASE StopEngine
  BY <1>k, <1>3 DEF StopEngine, streamVars, history
<1>4. CASE Return \/ MainThrows \/ Crash
  <2>1. source' = [s \in Sources |-> Off]
    BY <1>4, GoneFrame DEF Gone
  <2>2. \A s \in Sources : source'[s].at # "failed"
    BY <2>1 DEF Off
  <2>3. torn' => crashes' # 0
    <3>1. CASE Crash
      BY <1>0, <3>1 DEF Crash
    <3>2. CASE Return \/ MainThrows
      BY <1>0, <3>2 DEF Return, MainThrows
    <3> QED BY <1>4, <3>1, <3>2
  <2> QED BY <2>2, <2>3 DEF BlameOK
<1>5. CASE Launch
  BY <1>k, <1>5 DEF Launch, Outside
<1>6. CASE Scan
  BY <1>k, <1>6, ScanFrame DEF streamVars, history
<1>7. CASE Flush
  BY <1>k, <1>7, FlushFrame DEF streamVars, history
<1>8. CASE WorldQuiet
  BY <1>k, <1>8, WorldFrame DEF history
<1>9. CASE \E s \in Sources : SourceStep(s)
  <2> PICK s \in Sources : SourceStep(s)
    BY <1>9
  <2>1. UNCHANGED <<crashes, torn>>
    BY SourceFrame
  <2>2. CASE AppendFails(s)
    <3>1. faults' # 0
      BY <1>0, <2>2 DEF AppendFails
    <3> QED BY <1>0, <2>1, <3>1 DEF BlameOK
  <2>3. CASE ~AppendFails(s)
    <3>1. UNCHANGED faults
      BY <2>3 DEF SourceStep, AppendSucceeds, Accept, Read, ReadEnds, Receive, GetLine, GetLineEnds,
         PollEnds, StreamStep, history
    <3>2. \A t \in Sources : source'[t].at = "failed" => source[t].at = "failed"
      <4>1. CASE AppendSucceeds(s)
        <5>1. source' = [source EXCEPT ![s] = Appended(s)] /\ source[s].at = "append"
          BY <4>1 DEF AppendSucceeds
        <5>2. s # "file"
          <6>1. source[s].at \in Stages[s]
            BY SourceTypes
          <6> QED BY <5>1, <6>1, AllStages
        <5>3. Appended(s).at # "failed"
          <6>1. source[s] \in Served
            BY <1>0
          <6> QED BY <5>2, <6>1, AgainCases DEF Appended, Served, Sources
        <5> QED BY <1>0, <5>1, <5>3
      <4>2. ASSUME NEW c \in Conns, Accept(s, c)
            PROVE  \A t \in Sources : source'[t].at = "failed" => source[t].at = "failed"
        <5> DEFINE full == options.limit > 0 /\ source[s].served >= options.limit
                   a == [source[s] EXCEPT !.at = Again("accept")]
                   b == [source[s] EXCEPT !.at = Again("read"), !.conn = c, !.served = source[s].served + 1]
        <5>1. source' = [source EXCEPT ![s] = IF full THEN a ELSE b]
          BY <4>2 DEF Accept
        <5>2. a.at # "failed" /\ b.at # "failed"
          BY <1>0, AgainCases DEF Served
        <5> HIDE DEF a, b
        <5> QED BY <1>0, <5>1, <5>2
      <4>3. ASSUME NEW n, Read(s, n)
            PROVE  \A t \in Sources : source'[t].at = "failed" => source[t].at = "failed"
        BY <1>0, <4>3, AgainCases DEF Read, Served
      <4>4. CASE ReadEnds(s)
        BY <1>0, <4>4, AgainCases DEF ReadEnds, Served
      <4>5. CASE Receive \/ GetLine \/ GetLineEnds \/ PollEnds
        BY <1>0, <4>5 DEF Receive, GetLine, GetLineEnds, PollEnds, Served, Sources
      <4> QED BY <2>3, <4>1, <4>2, <4>3, <4>4, <4>5 DEF SourceStep
    <3> QED BY <1>0, <2>1, <3>1, <3>2 DEF BlameOK
  <2> QED BY <2>2, <2>3
<1>10. CASE \E r \in Requests : Answer(r)
  <2>1. UNCHANGED <<source, crashes, torn>> /\ (faults' = faults \/ faults' = faults + 1)
    BY <1>10, AnswerFrame DEF streamVars, Answer, Handle, IngestSucceeds, IngestFails
  <2>2. faults # 0 => faults' # 0
    BY <1>0, <2>1
  <2> QED BY <1>0, <2>1, <2>2 DEF BlameOK
<1> QED BY NextCases, <1>1, <1>2, <1>3, <1>4, <1>5, <1>6, <1>7, <1>8, <1>9, <1>10

(* Records that are no connection's lines, in a queue.                      *)
LEMMA ForeignQueue ==
  ASSUME NEW q \in Seq(Text), AllForeign(q)
  PROVE  /\ AllForeign(<<>>)
         /\ \A t \in Text : Foreign(t) => AllForeign(Append(q, t)) /\ AllForeign(<<t>>)
         /\ q # <<>> => Head(q) \in Text /\ Foreign(Head(q)) /\ AllForeign(Tail(q))
<1>0. Len(q) \in Nat /\ DOMAIN q = 1..Len(q)
  OBVIOUS
<1>1. AllForeign(<<>>)
  BY DEF AllForeign
<1>2. ASSUME NEW t \in Text, Foreign(t) PROVE AllForeign(Append(q, t)) /\ AllForeign(<<t>>)
  <2>1. /\ DOMAIN Append(q, t) = 1..(Len(q) + 1)
        /\ \A k \in 1..(Len(q) + 1) : Append(q, t)[k] = IF k = Len(q) + 1 THEN t ELSE q[k]
    BY <1>0
  <2>2. \A k \in 1..(Len(q) + 1) : k # Len(q) + 1 => k \in DOMAIN q
    BY <1>0
  <2>3. \A k \in DOMAIN <<t>> : <<t>>[k] = t
    OBVIOUS
  <2> QED BY <1>2, <2>1, <2>2, <2>3 DEF AllForeign
<1>3. ASSUME q # <<>> PROVE Head(q) \in Text /\ Foreign(Head(q)) /\ AllForeign(Tail(q))
  <2>1. Len(q) # 0 /\ 1 \in DOMAIN q /\ Head(q) = q[1] /\ q[1] \in Text
    BY <1>0, <1>3
  <2>2. \A k \in DOMAIN Tail(q) : k + 1 \in DOMAIN q /\ Tail(q)[k] = q[k + 1]
    BY <1>0, <1>3
  <2> QED BY <2>1, <2>2 DEF AllForeign
<1> QED BY <1>1, <1>2, <1>3

(* ... and what the other sources and the requests hold.                    *)
LEMMA ForeignStep ==
  ASSUME IndInv, Marked, StreamInv, Next
  PROVE  ForeignOK'
<1>0. /\ \A s \in {"stdin", "udp"} : source[s].conn = 0 /\ AllForeign(source[s].lines)
      /\ AllForeign(arrived.queue) /\ AllForeign(typed.lines)
      /\ \A r \in Requests : request[r].at \in {"sent", "append"} => request[r].body \in options.bodies
  BY DEF StreamInv, ForeignOK
<1>t. /\ source \in [Sources -> Served] /\ {"stdin", "udp"} \subseteq Sources
      /\ arrived.queue \in Seq(Text) /\ typed.lines \in Seq(Text)
      /\ arrived \in [queue : Seq(Text), next : Nat]
      /\ typed \in [lines : Seq(Text), next : Nat \ {0}, ended : BOOLEAN]
      /\ request \in [Requests -> Asked] /\ options \in Options
  BY DEF IndInv, Typed, SourceType, InputType, RequestType, Control, Sources
<1>l. \A s \in {"stdin", "udp"} : source[s].lines \in Seq(Text)
  BY <1>t DEF Served
<1>e. AllForeign(<<>>)
  BY DEF AllForeign
<1>k. ASSUME UNCHANGED <<source, arrived, typed, request, options>> PROVE ForeignOK'
  BY <1>0, <1>k DEF ForeignOK
<1>1. CASE MainQuiet
  BY <1>1, <1>k, MainFrame DEF streamVars
<1>2. CASE StartSources
  <2>1. /\ UNCHANGED <<arrived, typed, request, options>>
        /\ source' = [s \in Sources |-> IF s \in options.sources THEN [Off EXCEPT !.at = First[s]] ELSE Off]
    BY <1>2 DEF StartSources
  <2>2. \A s \in {"stdin", "udp"} : source'[s].conn = 0 /\ source'[s].lines = <<>>
    BY <2>1 DEF Off, Sources
  <2> QED BY <1>0, <1>e, <2>1, <2>2 DEF ForeignOK
<1>3. CASE StopEngine
  BY <1>3, <1>k DEF StopEngine, streamVars
<1>4. CASE Return \/ MainThrows \/ Crash
  <2>1. /\ source' = [s \in Sources |-> Off] /\ arrived' = [arrived EXCEPT !.queue = <<>>]
        /\ request' = [r \in Requests |-> IF request[r].at \in {"sent", "append"}
                                            THEN [request[r] EXCEPT !.at = "lost"] ELSE request[r]]
        /\ UNCHANGED <<options, typed>>
    BY <1>4, GoneFrame DEF Gone
  <2>2. \A s \in {"stdin", "udp"} : source'[s].conn = 0 /\ source'[s].lines = <<>>
    BY <2>1 DEF Off, Sources
  <2>3. arrived'.queue = <<>>
    BY <1>t, <2>1
  <2>4. \A r \in Requests : request'[r].at \notin {"sent", "append"}
    BY <1>t, <2>1 DEF Asked
  <2> QED BY <1>0, <1>e, <2>1, <2>2, <2>3, <2>4 DEF ForeignOK
<1>5. CASE Launch
  BY <1>5, <1>k DEF Launch, Outside
<1>6. CASE Scan
  BY <1>6, <1>k, ScanFrame DEF streamVars
<1>7. CASE Flush
  BY <1>7, <1>k, FlushFrame DEF streamVars
<1>8. CASE WorldQuiet
  <2>0. UNCHANGED <<source, options>>
    BY <1>8, WorldFrame
  <2>1. CASE UNCHANGED <<arrived, typed, request>>
    BY <1>k, <2>0, <2>1
  <2>2. CASE Types
    <3>1. /\ typed' = [typed EXCEPT !.lines = Append(typed.lines, Input[typed.next]), !.next = typed.next + 1]
          /\ typed.next <= Len(Input) /\ UNCHANGED <<arrived, request>>
      BY <2>2 DEF Types
    <3>2. Input \in Seq(Text) /\ typed.next \in Nat \ {0}
      BY <1>t, AgentAssumption
    <3>3. typed.next \in DOMAIN Input /\ Input[typed.next] \in Text
      BY <3>1, <3>2
    <3>4. Input[typed.next] \in ToSet(Input)
      BY <3>3 DEF ToSet
    <3>5. Foreign(Input[typed.next])
      BY <3>4 DEF Marked, Foreign
    <3>6. AllForeign(Append(typed.lines, Input[typed.next]))
      BY <1>0, <1>t, <3>3, <3>5, ForeignQueue
    <3>7. typed'.lines = Append(typed.lines, Input[typed.next])
      BY <1>t, <3>1
    <3> QED BY <1>0, <2>0, <3>1, <3>6, <3>7 DEF ForeignOK
  <2>3. CASE EndsInput
    <3>1. typed'.lines = typed.lines /\ UNCHANGED <<arrived, request>>
      BY <1>t, <2>3 DEF EndsInput
    <3> QED BY <1>0, <2>0, <3>1 DEF ForeignOK
  <2>4. ASSUME NEW k \in DOMAIN Datagram, Arrives(k) PROVE ForeignOK'
    <3>1. arrived' = [queue |-> Append(arrived.queue, Datagram[k]), next |-> k + 1]
          /\ UNCHANGED <<typed, request>>
      BY <2>4 DEF Arrives
    <3>2. Datagram[k] \in Text /\ Datagram[k] \in ToSet(Datagram)
      BY AgentAssumption DEF ToSet
    <3>3. Foreign(Datagram[k])
      BY <3>2 DEF Marked, Foreign
    <3>4. AllForeign(Append(arrived.queue, Datagram[k]))
      BY <1>0, <1>t, <3>2, <3>3, ForeignQueue
    <3>5. arrived'.queue = Append(arrived.queue, Datagram[k])
      BY <3>1
    <3> QED BY <1>0, <2>0, <3>1, <3>4, <3>5 DEF ForeignOK
  <2>5. ASSUME NEW r \in Requests, NEW body \in options.bodies, Posts(r, body) PROVE ForeignOK'
    <3>1. request' = [request EXCEPT ![r] = [at |-> "sent", body |-> body, run |-> starts]]
          /\ UNCHANGED <<arrived, typed>>
      BY <2>5 DEF Posts
    <3>2. \A q \in Requests : request'[q].at \in {"sent", "append"} => request'[q].body \in options.bodies
      BY <1>0, <1>t, <3>1
    <3> QED BY <1>0, <2>0, <3>1, <3>2 DEF ForeignOK
  <2> QED BY <1>8, <2>1, <2>2, <2>3, <2>4, <2>5 DEF WorldQuiet, Signal, Connects, Sends, Closes
<1>9. CASE \E s \in Sources : SourceStep(s)
  <2> PICK s \in Sources : SourceStep(s)
    BY <1>9
  <2>1. UNCHANGED <<request, options>>
    BY SourceFrame
  <2>m. ASSUME \A t \in {"stdin", "udp"} : source'[t].conn = 0 /\ AllForeign(source'[t].lines),
               AllForeign(arrived'.queue), AllForeign(typed'.lines)
        PROVE  ForeignOK'
    BY <1>0, <2>1, <2>m DEF ForeignOK
  <2>2. CASE s \in Streams
    <3>1. UNCHANGED <<arrived, typed>>
      BY <2>2 DEF SourceStep, AppendSucceeds, AppendFails, Accept, Read, ReadEnds, StreamStep, Streams
    <3>2. \A t \in {"stdin", "udp"} : source'[t] = source[t]
      BY <1>t, <2>2 DEF SourceStep, AppendSucceeds, AppendFails, Accept, Read, ReadEnds, Streams
    <3> QED BY <1>0, <2>m, <3>1, <3>2
  <2>3. CASE AppendSucceeds(s) /\ s \notin Streams
    <3>1. source' = [source EXCEPT ![s] = Appended(s)] /\ source[s].at = "append"
          /\ UNCHANGED <<arrived, typed>>
      BY <2>3 DEF AppendSucceeds
    <3>2. s \in {"stdin", "udp"}
      <4>1. source[s].at \in Stages[s]
        BY SourceTypes
      <4> QED BY <2>3, <3>1, <4>1, AllStages DEF Sources, Streams
    <3>3. Appended(s).lines = <<>> /\ Appended(s).conn = 0
      <4>1. source[s] \in Served
        BY <1>t
      <4> QED BY <1>0, <3>2, <4>1 DEF Appended, Served
    <3> QED BY <1>0, <1>e, <1>t, <2>m, <3>1, <3>2, <3>3
  <2>4. CASE AppendFails(s) /\ s \notin Streams
    <3>1. source' = [source EXCEPT ![s] = Refused(s)] /\ source[s].at = "append"
          /\ UNCHANGED <<arrived, typed>>
      BY <2>4 DEF AppendFails
    <3>2. s \in {"stdin", "udp"}
      <4>1. source[s].at \in Stages[s]
        BY SourceTypes
      <4> QED BY <2>4, <3>1, <4>1, AllStages DEF Sources, Streams
    <3>3. Refused(s).lines = <<>> /\ Refused(s).conn = 0
      <4>1. source[s] \in Served
        BY <1>t
      <4> QED BY <1>0, <3>2, <4>1 DEF Refused, Served
    <3> QED BY <1>0, <1>e, <1>t, <2>m, <3>1, <3>2, <3>3
  <2>5. CASE Receive
    <3>1. /\ source' = [source EXCEPT !["udp"].lines = <<Head(arrived.queue)>>, !["udp"].at = "append"]
          /\ arrived.queue # <<>> /\ arrived' = [arrived EXCEPT !.queue = Tail(arrived.queue)]
          /\ UNCHANGED typed
      BY <2>5 DEF Receive
    <3>2. Head(arrived.queue) \in Text /\ Foreign(Head(arrived.queue)) /\ AllForeign(Tail(arrived.queue))
      BY <1>0, <1>t, <3>1, ForeignQueue
    <3>3. AllForeign(<<Head(arrived.queue)>>)
      BY <1>0, <1>t, <3>2, ForeignQueue
    <3>4. arrived'.queue = Tail(arrived.queue)
      BY <1>t, <3>1
    <3>5. source'["udp"].lines = <<Head(arrived.queue)>> /\ source'["udp"].conn = source["udp"].conn
          /\ source'["stdin"] = source["stdin"]
      BY <1>t, <3>1 DEF Served
    <3> QED BY <1>0, <2>m, <3>1, <3>2, <3>3, <3>4, <3>5
  <2>6. CASE GetLine
    <3> DEFINE lines == Append(source["stdin"].lines, Head(typed.lines))
               at == IF Len(lines) >= options.max_lines THEN "append" ELSE "getline"
    <3>1. /\ source' = [source EXCEPT !["stdin"].lines = lines, !["stdin"].at = at]
          /\ typed.lines # <<>> /\ typed' = [typed EXCEPT !.lines = Tail(typed.lines)]
          /\ UNCHANGED arrived
      BY <2>6 DEF GetLine
    <3>2. Head(typed.lines) \in Text /\ Foreign(Head(typed.lines)) /\ AllForeign(Tail(typed.lines))
      BY <1>0, <1>t, <3>1, ForeignQueue
    <3>3. AllForeign(lines)
      BY <1>0, <1>l, <3>2, ForeignQueue
    <3>4. typed'.lines = Tail(typed.lines)
      BY <1>t, <3>1
    <3> HIDE DEF lines, at
    <3>5. source'["stdin"].lines = lines /\ source'["stdin"].conn = source["stdin"].conn
          /\ source'["udp"] = source["udp"]
      BY <1>t, <3>1 DEF Served
    <3> QED BY <1>0, <2>m, <3>1, <3>2, <3>3, <3>4, <3>5
  <2>7. CASE GetLineEnds
    <3> DEFINE at == IF source["stdin"].lines = <<>> THEN "done" ELSE "append"
    <3>1. source' = [source EXCEPT !["stdin"].at = at] /\ UNCHANGED <<arrived, typed>>
      BY <2>7 DEF GetLineEnds
    <3> HIDE DEF at
    <3>2. \A t \in {"stdin", "udp"} : source'[t].lines = source[t].lines /\ source'[t].conn = source[t].conn
      BY <1>t, <3>1 DEF Served
    <3> QED BY <1>0, <2>m, <3>1, <3>2
  <2>8. CASE PollEnds
    <3>1. source' = [source EXCEPT !["file"].at = "done"] /\ UNCHANGED <<arrived, typed>>
      BY <2>8 DEF PollEnds
    <3>2. \A t \in {"stdin", "udp"} : source'[t] = source[t]
      BY <1>t, <3>1 DEF Served
    <3> QED BY <1>0, <2>m, <3>1, <3>2
  <2> QED BY <2>2, <2>3, <2>4, <2>5, <2>6, <2>7, <2>8 DEF SourceStep, Streams
<1>10. CASE \E r \in Requests : Answer(r)
  <2> PICK r \in Requests : Answer(r)
    BY <1>10
  <2>1. UNCHANGED <<source, arrived, typed, options>>
    BY AnswerFrame DEF streamVars
  <2>2. PICK a : request' = [request EXCEPT ![r].at = a]
    BY DEF Answer, Handle, IngestSucceeds, IngestFails
  <2>3. request[r].at \in {"sent", "append"}
    BY DEF Answer, Handle, IngestSucceeds, IngestFails
  <2>4. \A q \in Requests : request'[q].body = request[q].body /\ (q # r => request'[q].at = request[q].at)
    BY <1>t, <2>2 DEF Asked
  <2>5. \A q \in Requests : request'[q].at \in {"sent", "append"} => request'[q].body \in options.bodies
    BY <1>0, <2>3, <2>4
  <2> QED BY <1>0, <2>1, <2>5 DEF ForeignOK
<1> QED BY NextCases, <1>1, <1>2, <1>3, <1>4, <1>5, <1>6, <1>7, <1>8, <1>9, <1>10

(* Nothing is read and nothing is in the log at the start.                  *)
LEMMA StartStream ==
  ASSUME Init, Marked
  PROVE  StreamInv
<1>0. /\ stored = <<>> /\ queued = <<>> /\ main = "off" /\ torn = FALSE
      /\ \A s \in Sources : source[s] = Off
      /\ \A c \in Conns : conn[c].read = 0
      /\ arrived.queue = <<>> /\ typed.lines = <<>>
      /\ \A r \in Requests : request[r].at = "none"
  BY DEF Init
<1>1. Log = <<>>
  BY <1>0, EmptyTexts, ConcatEmptySeq DEF Log
<1>2. \A c \in Conns : Held(c, Log) = {} /\ InOrder(c, Log)
  BY <1>1 DEF Held, InOrder, ToSet
<1>3. \A c \in Conns : Ended(c, 0) = {}
  <2> TAKE c \in Conns
  <2>1. DOMAIN Wire[c] = 1..Len(Wire[c]) /\ Len(Wire[c]) \in Nat
    BY AgentAssumption DEF Text
  <2>2. \A i \in 1..Len(Wire[c]) : \A j \in (i + 1)..0 : FALSE
    BY <2>1
  <2> QED BY <2>1, <2>2 DEF Ended
<1>4. ServingOK
  BY <1>0 DEF ServingOK, Streams, Sources, Off, Marked
<1>5. IdleOK
  BY <1>0 DEF IdleOK, Streams, Sources, Off
<1>6. LogOK /\ WholeOK
  BY <1>0, <1>2, <1>3 DEF LogOK, WholeOK, FirstPart
<1>7. BlameOK
  BY <1>0 DEF BlameOK, Off
<1>8. ForeignOK
  BY <1>0 DEF ForeignOK, AllForeign, Off, Sources
<1> QED BY <1>4, <1>5, <1>6, <1>7, <1>8 DEF StreamInv, Streaming

(* Nothing happens.                                                         *)
LEMMA StreamStutter ==
  ASSUME StreamInv, UNCHANGED vars
  PROVE  StreamInv'
<1>1. UNCHANGED <<options, main, queued, stored, source, conn, arrived, typed, request, torn, faults, crashes>>
  BY DEF vars, streamVars, history
<1>2. Log' = Log
  BY <1>1 DEF Log
<1>3. ServingOK' /\ IdleOK' /\ WholeOK'
  BY <1>1, <1>2 DEF StreamInv, Streaming, ServingOK, IdleOK, WholeOK
<1>4. LogOK'
  BY <1>1, <1>2 DEF StreamInv, Streaming, LogOK, FirstPart
<1>5. BlameOK' /\ ForeignOK'
  BY <1>1 DEF StreamInv, BlameOK, ForeignOK
<1> QED BY <1>3, <1>4, <1>5 DEF StreamInv, Streaming

(* However a stream comes in and whatever append fails, and wherever the    *)
(* process stops or dies, the engine has of a connection a first part of    *)
(* its complete lines, in order, each once and without its CR, and after a  *)
(* clean exit without failures all of them (agent_support.cc's              *)
(* consume_line_stream and agent.cc's socket loops).  Marked lets a record  *)
(* be told from the line it comes from.                                     *)
THEOREM StreamHolds == Marked => (Spec => []StreamPrefix)
<1> SUFFICES ASSUME Marked PROVE Spec => []StreamPrefix
  OBVIOUS
<1>1. Init => StreamInv
  BY StartStream
<1>2. IndInv /\ StreamInv /\ [Next]_vars => StreamInv'
  <2> SUFFICES ASSUME IndInv, StreamInv, [Next]_vars PROVE StreamInv'
    OBVIOUS
  <2>1. CASE Next
    BY <2>1, StreamingStep, BlameStep, ForeignStep DEF StreamInv
  <2>2. CASE UNCHANGED vars
    BY <2>2, StreamStutter
  <2> QED BY <2>1, <2>2
<1>3. IndInv /\ StreamInv => StreamPrefix
  <2> SUFFICES ASSUME IndInv, StreamInv, NEW c \in Conns
               PROVE  /\ InOrder(c, Log) /\ Held(c, Log) \subseteq Ended(c, conn[c].read)
                      /\ \A i \in Ended(c, conn[c].read) : \A j \in Held(c, Log) : i < j => i \in Held(c, Log)
                      /\ main = "exited" /\ faults = 0 /\ crashes = 0 => Held(c, Log) = Ended(c, conn[c].read)
    BY DEF StreamPrefix, Log
  <2>1. FirstPart(c)
    BY DEF StreamInv, Streaming, LogOK
  <2>2. \A i \in Ended(c, conn[c].read) : i \in DOMAIN Wire[c] /\ Wire[c][i] > 0
    BY DEF Ended
  <2>3. ASSUME main = "exited" PROVE \A s \in Streams : source[s].conn # c
    BY <2>3 DEF StreamInv, Streaming, IdleOK, NotStarted, Stopped, Marked
  <2> QED BY <2>1, <2>2, <2>3 DEF FirstPart, StreamInv, Streaming, WholeOK
<1> QED BY <1>1, <1>2, <1>3, Invariance, PTL DEF Spec
=============================================================================
