------------------------- MODULE RstatServerProofs --------------------------
(***************************************************************************)
(* What TLAPS proves of the statistics server, for every value of the      *)
(* constants.  Each invariant is shown to hold at first and to be kept by  *)
(* the environment, by updatestat() and by the main program.               *)
(***************************************************************************)
EXTENDS RstatServer, TLAPS

(***************************************************************************)
(* The alarm.  AlarmLives is inductive as it stands.                       *)
(***************************************************************************)
\* No alarm is owed before the server has initialised itself.
LEMMA AlarmInit == Init => AlarmLives
BY DEF Init, AlarmLives

\* The environment takes an alarm away only by delivering it, or with the process.
LEMMA AlarmEnvironment == AlarmLives /\ Environment => AlarmLives'
<1> SUFFICES ASSUME AlarmLives, Environment PROVE AlarmLives'
  OBVIOUS
<1>1. CASE Tick BY <1>1 DEF Tick, AlarmLives, prog, data, local, signal
<1>2. CASE IfAttach BY <1>2 DEF IfAttach, AlarmLives, prog, data, local, signal
<1>3. CASE Arrive BY <1>3 DEF Arrive, AlarmLives, prog, data, local, signal
<1>4. CASE Restart BY <1>4 DEF Restart, AlarmLives
<1>5. CASE Ring BY <1>5 DEF Ring, AlarmLives, prog, local
<1>6. CASE Deliver BY <1>6 DEF Deliver, EndsBy, AlarmLives, prog
<1>7. CASE ReadFails BY <1>7 DEF ReadFails, EndsBy, AlarmLives
<1> QED BY <1>1, <1>2, <1>3, <1>4, <1>5, <1>6, <1>7 DEF Environment

\* updatestat() sets the alarm before it returns.
LEMMA AlarmUpdateStat == AlarmLives /\ UpdateStat => AlarmLives'
<1> SUFFICES ASSUME AlarmLives, UpdateStat PROVE AlarmLives'
  OBVIOUS
<1>1. CASE CloseDown BY <1>1 DEF CloseDown, EndsBy, AlarmLives
<1>2. CASE CountAlarm BY <1>2 DEF CountAlarm, AlarmLives
<1>3. CASE ReadHz BY <1>3 DEF ReadHz, Reads, Stores, AlarmLives
<1>4. CASE ReadCpTime BY <1>4 DEF ReadCpTime, Reads, Stores, AlarmLives
<1>5. CASE Avenrun BY <1>5 DEF Avenrun, Reads, Stores, AlarmLives
<1>6. CASE ReadBootTime BY <1>6 DEF ReadBootTime, Reads, Stores, AlarmLives
<1>7. CASE ReadSum BY <1>7 DEF ReadSum, Reads, Stores, AlarmLives
<1>8. CASE ReadDkXfer BY <1>8 DEF ReadDkXfer, Reads, Stores, AlarmLives
<1>9. CASE ReadIfnet BY <1>9 DEF ReadIfnet, Reads, Stores, AlarmLives
<1>10. CASE CurTime BY <1>10 DEF CurTime, Rearmed, AlarmLives
<1> QED BY <1>1, <1>2, <1>3, <1>4, <1>5, <1>6, <1>7, <1>8, <1>9, <1>10 DEF UpdateStat

\* The main program never takes the alarm away.
LEMMA AlarmProgram == AlarmLives /\ Program => AlarmLives'
<1> SUFFICES ASSUME AlarmLives, Program PROVE AlarmLives'
  OBVIOUS
<1> USE DEF AlarmLives, On, local, signal
<1>1. CASE Receive BY <1>1 DEF Receive
<1>2. CASE Dispatch BY <1>2 DEF Dispatch, Answer
<1>3. CASE Setup BY <1>3 DEF Setup
<1>4. CASE CountIfnet BY <1>4 DEF CountIfnet, prog
<1>5. CASE Counted BY <1>5 DEF Counted, FirstUpdate
<1>6. CASE AlarmAgain BY <1>6 DEF AlarmAgain, Rearmed
<1>7. CASE Catch BY <1>7 DEF Catch
<1>8. CASE Wake BY <1>8 DEF Wake
<1>9. CASE Reset BY <1>9 DEF Reset
<1>10. CASE SymbolMissing BY <1>10 DEF SymbolMissing, EndsBy
<1>11. CASE Open BY <1>11 DEF Open
<1>12. CASE Seek BY <1>12 DEF Seek
<1>13. CASE ReadXfer BY <1>13 DEF ReadXfer, Answer
<1>14. CASE Encode BY <1>14 DEF Encode, Answer
<1>15. CASE OpenFails BY <1>15 DEF OpenFails, EndsBy
<1>16. CASE NlistClears BY <1>16 DEF NlistClears, Nlist
<1>17. CASE NlistFinds BY <1>17 DEF NlistFinds, Nlist
<1> QED BY <1>1, <1>2, <1>3, <1>4, <1>5, <1>6, <1>7, <1>8, <1>9, <1>10, <1>11,
           <1>12, <1>13, <1>14, <1>15, <1>16, <1>17 DEF Program

\* While a server that has initialised itself is up, an alarm is set, due or being
\* handled (lines 76 and 251): the statistics go on being read.
THEOREM AlarmAlwaysLives == Spec => []AlarmLives
<1>1. Init => AlarmLives
  BY AlarmInit
<1>2. AlarmLives /\ [Next]_vars => AlarmLives'
  <2> SUFFICES ASSUME AlarmLives, [Next]_vars PROVE AlarmLives'
    OBVIOUS
  <2>1. CASE UNCHANGED vars
    BY <2>1 DEF vars, prog, local, signal, AlarmLives
  <2> QED
    BY <2>1, AlarmEnvironment, AlarmUpdateStat, AlarmProgram DEF Next
<1> QED
  BY <1>1, <1>2, PTL DEF Spec

(***************************************************************************)
(* What the words hold.  The check of the namelist is what keeps address 0 *)
(* out of cp_time: without that symbol no process comes past setup().      *)
(***************************************************************************)
NothingRead ==
  /\ up = "out" /\ ~caught
  /\ status = "up" => main \in {"svc", "dispatch", "setup"}
  /\ status = "up" /\ stat_is_init => main = "setup"
NamelistChecked == "cp_time" \in missing => NothingRead

\* While nlist() runs again the program is in havedisk(); a process that has come
\* past setup() has opened kernel memory.
Listing ==
  /\ kmem \in Nat
  /\ status = "up" /\ unlisted # {} => main = "finding"
  /\ status = "up" /\ main \notin {"svc", "dispatch", "setup"} => kmem > 0
  /\ status = "up" /\ stat_is_init /\ main # "setup" => kmem > 0

\* What a word may hold when updatestat() is at some stage.
Right(w, v, stage) ==
  \/ v.of \in Sources[w] \cup {"zero"}
  \/ v.of = AddressZero /\ Sources[w] \cap (missing \ {"cp_time"}) # {}
  \/ /\ v.of = Unlisted /\ w \in DOMAIN Since
     /\ kmem > 1 \/ main \in {"finding", "open"}
     /\ stage \in Since[w] => unlisted # {}

\* UpdateReadsRight, word by word.
LEMMA ReadsRightByWord == UpdateReadsRight <=> \A w \in Words : Right(w, stats_all[w], up)
BY DEF UpdateReadsRight, ReadDuringNlist, Right

\* The stages after which a word has been read are stages inside updatestat().
LEMMA SinceInside ==
  ASSUME NEW w \in DOMAIN Since
  PROVE  Since[w] \cap {"out", "idle", "hz", "cp_time"} = {}
BY DEF Since, AfterSum

\* Listing is kept by the environment,
LEMMA ListingEnvironment == Listing /\ Environment => Listing'
<1> SUFFICES ASSUME Listing, Environment PROVE Listing'
  OBVIOUS
<1>1. CASE Restart
  BY <1>1 DEF Restart, Listing
<1>2. CASE ~Restart
  <2>1. UNCHANGED <<kmem, unlisted, main, stat_is_init>> /\ (status' = "up" => status = "up")
    BY <1>2 DEF Environment, Tick, IfAttach, Arrive, Ring, Deliver, ReadFails, EndsBy, prog, data
  <2> QED BY <2>1 DEF Listing
<1> QED BY <1>1, <1>2

\* by updatestat(),
LEMMA ListingUpdateStat == Listing /\ UpdateStat => Listing'
<1> SUFFICES ASSUME Listing, UpdateStat PROVE Listing'
  OBVIOUS
<1>1. UNCHANGED <<kmem, unlisted, main, stat_is_init>> /\ (status' = "up" => status = "up")
  BY DEF UpdateStat, CloseDown, CountAlarm, ReadHz, ReadCpTime, Avenrun, ReadBootTime,
     ReadSum, ReadDkXfer, ReadIfnet, CurTime, Reads, Stores, At, EndsBy, prog, data
<1> QED BY <1>1 DEF Listing

\* and by the main program.
LEMMA ListingProgram == Listing /\ Program => Listing'
<1> SUFFICES ASSUME Listing, Program PROVE Listing'
  OBVIOUS
<1> USE DEF Listing, On, data
<1>1. CASE Receive BY <1>1 DEF Receive
<1>2. CASE Dispatch BY <1>2 DEF Dispatch, Answer
<1>3. CASE Setup BY <1>3 DEF Setup
<1>4. CASE CountIfnet BY <1>4 DEF CountIfnet, prog
<1>5. CASE Counted BY <1>5 DEF Counted
<1>6. CASE AlarmAgain BY <1>6 DEF AlarmAgain
<1>7. CASE Catch BY <1>7 DEF Catch
<1>8. CASE Wake BY <1>8 DEF Wake
<1>9. CASE Reset BY <1>9 DEF Reset
<1>10. CASE SymbolMissing BY <1>10 DEF SymbolMissing, EndsBy
<1>11. CASE Open BY <1>11 DEF Open
<1>12. CASE Seek BY <1>12 DEF Seek
<1>13. CASE ReadXfer BY <1>13 DEF ReadXfer, Answer
<1>14. CASE Encode BY <1>14 DEF Encode, Answer
<1>15. CASE OpenFails BY <1>15 DEF OpenFails, EndsBy
<1>16. CASE NlistClears BY <1>16 DEF NlistClears, Nlist
<1>17. CASE NlistFinds BY <1>17 DEF NlistFinds, Nlist
<1> QED BY <1>1, <1>2, <1>3, <1>4, <1>5, <1>6, <1>7, <1>8, <1>9, <1>10, <1>11,
           <1>12, <1>13, <1>14, <1>15, <1>16, <1>17 DEF Program

\* NamelistChecked is kept by the environment,
LEMMA NamelistEnvironment == NamelistChecked /\ Environment => NamelistChecked'
<1> SUFFICES ASSUME NamelistChecked, Environment PROVE NamelistChecked'
  OBVIOUS
<1> USE DEF NamelistChecked, NothingRead, env, prog, local, signal
<1>1. CASE Tick BY <1>1 DEF Tick
<1>2. CASE IfAttach BY <1>2 DEF IfAttach
<1>3. CASE Arrive BY <1>3 DEF Arrive
<1>4. CASE Restart BY <1>4 DEF Restart
<1>5. CASE Ring BY <1>5 DEF Ring
<1>6. CASE Deliver BY <1>6 DEF Deliver, EndsBy
<1>7. CASE ReadFails BY <1>7 DEF ReadFails, EndsBy
<1> QED BY <1>1, <1>2, <1>3, <1>4, <1>5, <1>6, <1>7 DEF Environment

\* by updatestat(), which runs only if the symbol was found,
LEMMA NamelistUpdateStat == NamelistChecked /\ UpdateStat => NamelistChecked'
<1> SUFFICES ASSUME NamelistChecked, UpdateStat PROVE NamelistChecked'
  OBVIOUS
<1>1. up # "out" /\ missing' = missing
  BY DEF UpdateStat, CloseDown, CountAlarm, ReadHz, ReadCpTime, Avenrun, ReadBootTime,
     ReadSum, ReadDkXfer, ReadIfnet, CurTime, Reads, Stores, At, EndsBy, env
<1> QED
  BY <1>1 DEF NamelistChecked, NothingRead

\* and by the main program, which setup() stops.
LEMMA NamelistProgram == NamelistChecked /\ Program => NamelistChecked'
<1> SUFFICES ASSUME NamelistChecked, Program PROVE NamelistChecked'
  OBVIOUS
<1> USE DEF NamelistChecked, NothingRead, On, env, local, signal
<1>1. CASE Receive BY <1>1 DEF Receive
<1>2. CASE Dispatch BY <1>2 DEF Dispatch, Answer
<1>3. CASE Setup BY <1>3 DEF Setup, NamelistFails, Checked
<1>4. CASE CountIfnet BY <1>4 DEF CountIfnet, prog
<1>5. CASE Counted BY <1>5 DEF Counted
<1>6. CASE AlarmAgain BY <1>6 DEF AlarmAgain
<1>7. CASE Catch BY <1>7 DEF Catch
<1>8. CASE Wake BY <1>8 DEF Wake
<1>9. CASE Reset BY <1>9 DEF Reset
<1>10. CASE SymbolMissing BY <1>10 DEF SymbolMissing, EndsBy
<1>11. CASE Open BY <1>11 DEF Open
<1>12. CASE Seek BY <1>12 DEF Seek
<1>13. CASE ReadXfer BY <1>13 DEF ReadXfer, Answer
<1>14. CASE Encode BY <1>14 DEF Encode, Answer
<1>15. CASE OpenFails BY <1>15 DEF OpenFails, EndsBy
<1>16. CASE NlistClears BY <1>16 DEF NlistClears, Nlist
<1>17. CASE NlistFinds BY <1>17 DEF NlistFinds, Nlist
<1> QED BY <1>1, <1>2, <1>3, <1>4, <1>5, <1>6, <1>7, <1>8, <1>9, <1>10, <1>11,
           <1>12, <1>13, <1>14, <1>15, <1>16, <1>17 DEF Program

\* A store of right words leaves every word right, if no other word was due.
LEMMA StoresRight ==
  ASSUME NEW stage, NEW next, NEW words, Stores(stage, next, words), UpdateReadsRight,
         \A w \in DOMAIN words : Right(w, words[w], next),
         \A w \in DOMAIN Since \ DOMAIN words : next \in Since[w] => stage \in Since[w]
  PROVE  UpdateReadsRight'
<1>1. UNCHANGED <<missing, kmem, main, unlisted>> /\ up = stage /\ up' = next
  BY DEF Stores, At, env, prog
<1>2. stats_all' = [w \in Words |-> IF w \in DOMAIN words THEN words[w] ELSE stats_all[w]]
  BY DEF Stores
<1>3. ASSUME NEW w \in Words PROVE Right(w, stats_all'[w], next)
  <2>1. CASE w \in DOMAIN words
    BY <1>2, <2>1
  <2>2. CASE w \notin DOMAIN words
    <3>1. stats_all'[w] = stats_all[w] /\ Right(w, stats_all[w], stage)
      BY <1>1, <1>2, <2>2, ReadsRightByWord
    <3> QED
      BY <2>2, <3>1 DEF Right
  <2> QED BY <2>1, <2>2
<1>4. ASSUME NEW w \in Words PROVE Right(w, stats_all[w], up)'
  BY <1>1, <1>3 DEF Right, Sources, AddressZero, Unlisted, Since, AfterSum
<1> QED
  BY <1>4 DEF UpdateReadsRight, ReadDuringNlist, Right

\* A word read at the place of a symbol: right, if a missing one was never checked,
\* and if it is nlist() that has not found it yet.
LEMMA ReadRight ==
  ASSUME Listing, status = "up", NEW s \in Symbols, s = "cp_time" => s \notin missing,
         NEW w \in {"cp_time", "dk_xfer", "v_pgpgin", "word17", "avenrun", "boottime"},
         s \in Sources[w], NEW stage
  PROVE  Right(w, Read(Place(s)), stage)
<1>1. Read(Place(s)).of = Place(s)
  BY DEF Read, Value, Sought
<1>2. CASE s \in missing
  BY <1>1, <1>2 DEF Place, Right
<1>3. CASE s \notin missing /\ s \notin unlisted
  BY <1>1, <1>3 DEF Place, Right
<1>4. CASE s \notin missing /\ s \in unlisted
  <2>1. w \in DOMAIN Since
    BY DEF Since
  <2> QED
    BY <1>1, <1>4, <2>1 DEF Place, Right, Listing
<1> QED BY <1>2, <1>3, <1>4

\* Every store of updatestat() is of right words.
LEMMA ReadsRightUpdateStat ==
  NamelistChecked /\ Listing /\ UpdateReadsRight /\ UpdateStat => UpdateReadsRight'
<1> SUFFICES ASSUME NamelistChecked, Listing, UpdateReadsRight, UpdateStat PROVE UpdateReadsRight'
  OBVIOUS
<1>1. ASSUME UNCHANGED <<stats_all, missing, kmem, main, unlisted>>, up' \in {"out", "hz"}
      PROVE  UpdateReadsRight'
  <2>1. ASSUME NEW w \in Words PROVE Right(w, stats_all[w], up)'
    <3>1. Right(w, stats_all[w], up)
      BY ReadsRightByWord
    <3>2. w \in DOMAIN Since => up' \notin Since[w]
      BY <1>1, SinceInside
    <3> QED
      BY <1>1, <3>1, <3>2 DEF Right, Sources, AddressZero, Unlisted, Since, AfterSum
  <2> QED BY <2>1 DEF UpdateReadsRight, ReadDuringNlist, Right
<1>2. CASE CloseDown BY <1>1, <1>2 DEF CloseDown, EndsBy, env, data, prog
<1>3. CASE CountAlarm BY <1>1, <1>3 DEF CountAlarm, env, prog
<1>0. status = "up"
  BY DEF UpdateStat, CloseDown, CountAlarm, ReadHz, ReadCpTime, Avenrun, ReadBootTime,
     ReadSum, ReadDkXfer, ReadIfnet, CurTime, Reads, Stores, At
<1>4. CASE ReadHz
  <2>1. Stores("hz", "cp_time", <<>>) BY <1>4 DEF ReadHz, Reads
  <2>2. DOMAIN <<>> = {} OBVIOUS
  <2>3. \A w \in DOMAIN Since \ DOMAIN <<>> : "cp_time" \in Since[w] => "hz" \in Since[w]
    BY <2>2, SinceInside DEF Since, AfterSum
  <2> QED BY <2>1, <2>2, <2>3, StoresRight
<1>5. CASE ReadCpTime
  <2> DEFINE words == [cp_time |-> Read(Place("cp_time"))]
  <2>1. Stores("cp_time", "avenrun", words) BY <1>5 DEF ReadCpTime, Reads
  <2>2. "cp_time" \notin missing BY <2>1 DEF Stores, At, NamelistChecked, NothingRead
  <2>3. Right("cp_time", Read(Place("cp_time")), "avenrun") BY <1>0, <2>2, ReadRight DEF Symbols, Sources
  <2>4. \A w \in DOMAIN words : Right(w, words[w], "avenrun") BY <2>3
  <2>5. \A w \in DOMAIN Since \ DOMAIN words : "avenrun" \in Since[w] => "cp_time" \in Since[w]
    BY DEF Since, AfterSum
  <2> HIDE DEF words
  <2> QED BY <2>1, <2>4, <2>5, StoresRight
<1>6. CASE Avenrun
  <2>1. CASE VAX
    <3> DEFINE words == [avenrun |-> Read(Place("avenrun"))]
    <3>1. Stores("avenrun", "boottime", words) BY <1>6, <2>1 DEF Avenrun, Reads
    <3>2. Right("avenrun", Read(Place("avenrun")), "boottime") BY <1>0, ReadRight DEF Symbols, Sources
    <3>3. \A w \in DOMAIN words : Right(w, words[w], "boottime") BY <3>2
    <3>4. \A w \in DOMAIN Since \ DOMAIN words : "boottime" \in Since[w] => "avenrun" \in Since[w]
      BY DEF Since, AfterSum
    <3> HIDE DEF words
    <3> QED BY <3>1, <3>3, <3>4, StoresRight
  <2>2. CASE ~VAX
    <3>1. Stores("avenrun", "boottime", <<>>) BY <1>6, <2>2 DEF Avenrun
    <3>2. DOMAIN <<>> = {} OBVIOUS
    <3>3. \A w \in DOMAIN Since \ DOMAIN <<>> : "boottime" \in Since[w] => "avenrun" \in Since[w]
      BY <2>2, <3>2 DEF Since, AfterSum
    <3> QED BY <3>1, <3>2, <3>3, StoresRight
  <2> QED BY <2>1, <2>2
<1>7. CASE ReadBootTime
  <2> DEFINE words == [boottime |-> Read(Place("boottime"))]
  <2>1. Stores("boottime", "sum", words) BY <1>7 DEF ReadBootTime, Reads
  <2>2. Right("boottime", Read(Place("boottime")), "sum") BY <1>0, ReadRight DEF Symbols, Sources
  <2>3. \A w \in DOMAIN words : Right(w, words[w], "sum") BY <2>2
  <2>4. \A w \in DOMAIN Since \ DOMAIN words : "sum" \in Since[w] => "boottime" \in Since[w]
    BY DEF Since, AfterSum
  <2> HIDE DEF words
  <2> QED BY <2>1, <2>3, <2>4, StoresRight
<1>8. CASE ReadSum
  <2> DEFINE words == [v_pgpgin |-> Read(Place("sum")), word17 |-> Read(Place("sum"))]
  <2>1. Stores("sum", "dk_xfer", words) BY <1>8 DEF ReadSum, Reads
  <2>2. Right("v_pgpgin", Read(Place("sum")), "dk_xfer") /\ Right("word17", Read(Place("sum")), "dk_xfer")
    BY <1>0, ReadRight DEF Symbols, Sources
  <2>3. \A w \in DOMAIN words : Right(w, words[w], "dk_xfer") BY <2>2
  <2>4. \A w \in DOMAIN Since \ DOMAIN words : "dk_xfer" \in Since[w] => "sum" \in Since[w]
    BY DEF Since, AfterSum
  <2> HIDE DEF words
  <2> QED BY <2>1, <2>3, <2>4, StoresRight
<1>9. CASE ReadDkXfer
  <2>1. Stores("dk_xfer", "ifnet", Zeroed) BY <1>9 DEF ReadDkXfer, Reads
  <2>2. Right("dk_xfer", Read(Place("dk_xfer")), "ifnet") BY <1>0, ReadRight DEF Symbols, Sources
  <2>3. Right("if_ipackets", Zero, "ifnet") /\ Right("word17", Zero, "ifnet") BY DEF Right, Zero
  <2>4. \A w \in DOMAIN Zeroed : Right(w, Zeroed[w], "ifnet") BY <2>2, <2>3 DEF Zeroed
  <2>5. \A w \in DOMAIN Since \ DOMAIN Zeroed : "ifnet" \in Since[w] => "dk_xfer" \in Since[w]
    BY DEF Zeroed, Since, AfterSum
  <2> QED BY <2>1, <2>4, <2>5, StoresRight
<1>10. CASE ReadIfnet
  <2> DEFINE words == [if_ipackets |-> Plus(stats_all["if_ipackets"], off),
                       word17 |-> Plus(stats_all["word17"], off)]
  <2>1. Stores("ifnet", "ifnet", words) BY <1>10 DEF ReadIfnet, Reads
  <2>2. Right("if_ipackets", Plus(stats_all["if_ipackets"], off), "ifnet")
    BY DEF Right, Plus, Sources
  <2>3. Right("word17", Plus(stats_all["word17"], off), "ifnet")
    BY DEF Right, Plus, Sources
  <2>4. \A w \in DOMAIN words : Right(w, words[w], "ifnet") BY <2>2, <2>3
  <2> HIDE DEF words
  <2> QED BY <2>1, <2>4, StoresRight
<1>11. CASE CurTime
  <2>1. Stores("ifnet", "out", TimeWords) BY <1>11 DEF CurTime
  <2>2. Right("word23", Value("curtime"), "out") /\ Right("word24", Value("curtime"), "out")
    BY DEF Right, Value, Sources
  <2>3. \A w \in DOMAIN TimeWords : Right(w, TimeWords[w], "out") BY <2>2 DEF TimeWords, BothHalves
  <2>4. \A w \in DOMAIN Since \ DOMAIN TimeWords : "out" \in Since[w] => "ifnet" \in Since[w]
    BY SinceInside DEF Since, AfterSum
  <2> QED BY <2>1, <2>3, <2>4, StoresRight
<1> QED BY <1>2, <1>3, <1>4, <1>5, <1>6, <1>7, <1>8, <1>9, <1>10, <1>11 DEF UpdateStat

\* Nothing else stores into the words, but for a fresh process, which zeroes them.
LEMMA ReadsRightElse ==
  Listing /\ UpdateReadsRight /\ (Environment \/ Program) => UpdateReadsRight'
<1> SUFFICES ASSUME Listing, UpdateReadsRight, Environment \/ Program PROVE UpdateReadsRight'
  OBVIOUS
<1>1. CASE Restart
  BY <1>1 DEF Restart, UpdateReadsRight, Zero
<1>2. CASE ~Restart
  <2>1. UNCHANGED <<stats_all, missing>>
    BY <1>2 DEF Environment, Tick, IfAttach, Arrive, Ring, Deliver, ReadFails, EndsBy,
       Program, Receive, Dispatch, Setup, CountIfnet, Counted, AlarmAgain, Catch, Wake, Reset,
       NlistClears, NlistFinds, Nlist, SymbolMissing, Open, Seek, ReadXfer, Encode, OpenFails, data, env
  <2>2. up' \in {"out", "idle"} \/ UNCHANGED <<up, unlisted>>
    BY <1>2 DEF Environment, Tick, IfAttach, Arrive, Ring, Deliver, ReadFails, EndsBy,
       Program, Receive, Dispatch, Setup, CountIfnet, Counted, FirstUpdate, AlarmAgain, Catch, Wake, Reset,
       NlistClears, NlistFinds, Nlist, SymbolMissing, Open, Seek, ReadXfer, Encode, OpenFails,
       On, data, local
  <2>3. kmem > 1 \/ main \in {"finding", "open"} => kmem' > 1 \/ main' \in {"finding", "open"}
    <3>1. CASE Environment
      BY <1>2, <3>1 DEF Environment, Tick, IfAttach, Arrive, Ring, Deliver, ReadFails, EndsBy, prog, data
    <3>2. CASE Program
      BY <3>2 DEF Listing, Program, Receive, Dispatch, Answer, Setup, CountIfnet, Counted, AlarmAgain, Catch,
         Wake, Reset, NlistClears, NlistFinds, Nlist, SymbolMissing, EndsBy, Open, Seek, ReadXfer, Encode,
         OpenFails, On, data, prog
    <3> QED BY <3>1, <3>2
  <2>4. ASSUME NEW w \in Words PROVE Right(w, stats_all[w], up)'
    <3>1. Right(w, stats_all[w], up)
      BY ReadsRightByWord
    <3>2. w \in DOMAIN Since /\ up' \in Since[w] => up \in Since[w] /\ unlisted' = unlisted
      BY <2>2, SinceInside
    <3> QED
      BY <2>1, <2>3, <3>1, <3>2 DEF Right, Sources, AddressZero, Unlisted, Since, AfterSum
  <2> QED BY <2>4 DEF UpdateReadsRight, ReadDuringNlist, Right
<1> QED BY <1>1, <1>2

\* A word of stats_all holds what its name says, or nothing yet, or what a missing
\* symbol that nobody checks makes of it (lines 160-226, 261 and 304), or what an
\* alarm read that went off in the nlist() of line 303, wherever in it, until the
\* next update after the nlist() reads the word again.
THEOREM UpdateAlwaysReadsRight == Spec => []UpdateReadsRight
<1>1. Init => NamelistChecked /\ Listing /\ UpdateReadsRight
  BY DEF Init, NamelistChecked, NothingRead, Listing, UpdateReadsRight, Zero
<1>2. NamelistChecked /\ Listing /\ UpdateReadsRight /\ [Next]_vars
        => (NamelistChecked /\ Listing /\ UpdateReadsRight)'
  <2> SUFFICES ASSUME NamelistChecked, Listing, UpdateReadsRight, [Next]_vars
               PROVE  NamelistChecked' /\ Listing' /\ UpdateReadsRight'
    OBVIOUS
  <2>1. CASE UNCHANGED vars
    BY <2>1 DEF vars, env, prog, data, local, signal, NamelistChecked, NothingRead, Listing,
       UpdateReadsRight, ReadDuringNlist, AddressZero, Unlisted, Sources, Since, AfterSum
  <2>2. CASE Environment
    BY <2>2, NamelistEnvironment, ListingEnvironment, ReadsRightElse
  <2>3. CASE UpdateStat
    BY <2>3, NamelistUpdateStat, ListingUpdateStat, ReadsRightUpdateStat
  <2>4. CASE Program
    BY <2>4, NamelistProgram, ListingProgram, ReadsRightElse
  <2> QED
    BY <2>1, <2>2, <2>3, <2>4 DEF Next
<1> QED
  BY <1>1, <1>2, PTL DEF Spec

(***************************************************************************)
(* The replies.  A reply is put together while updatestat() may run at any *)
(* point, so the inductive invariant says what the words hold at each      *)
(* stage of updatestat(), and what the words already encoded hold.         *)
(***************************************************************************)
Origins  == Places \cup {"zero", "ifnet", "curtime"}
ValueSet == [of : Origins, at : 0 .. MaxNow, ifs : Seq(Nat)]
ReplySet == [proc : Procs \cup {"none"}, body : Seq(ValueSet), have : BOOLEAN]

Shapes ==
  /\ stats_all \in [Words -> ValueSet]
  /\ reply \in ReplySet /\ sent \in ReplySet

\* The request in hand, by how far it has come.
Requests ==
  /\ main # "svc" => req \in Asked
  /\ main \notin {"svc", "dispatch"} => stat_is_init /\ req # "null"
  /\ main \in {"nlist", "finding", "open", "seek", "read"} => req = "havedisk" /\ reply.body = <<>>
  /\ main \in {"nlist", "finding", "open", "seek", "read", "encode"} => reply.proc = req
  /\ main = "encode" => req \in Stats /\ Len(reply.body) <= Len(Layout[req])

\* updatestat() is called by stat_init(), and by the handler set after that call.
Calls ==
  /\ caught => stat_is_init /\ main \notin {"setup", "count", "updating", "signal"}
  /\ up # "out" => status = "up" /\ (main = "updating" \/ caught)
 
\* updatestat() has run to its end at least once.
Updated ==
  /\ status = "up" /\ stat_is_init /\ main \notin {"setup", "count"}
  /\ main = "updating" => up = "out"

FirstN(n) == [m \in 1 .. n |-> m]

\* The chain of interfaces: setup() counts those there are, updatestat() walks as
\* many, though more may have come.
Counting ==
  /\ status = "up" /\ main = "count" =>
       IF off = 0 THEN numintfs \in 1 .. nifs ELSE off = numintfs + 1 /\ off <= nifs
  /\ stat_is_init /\ main \notin {"setup", "count"} => numintfs \in 1 .. nifs

Filling(w) == stats_all[w].of # "zero"

Walking ==
  up = "ifnet" =>
    /\ i <= numintfs
    /\ IF off = 0 THEN i = numintfs ELSE off = i + 1 /\ off <= nifs
    /\ stats_all["if_ipackets"].ifs = FirstN(i)
    /\ i > 0 => Filling("if_ipackets") /\ Filling("word17")

Walked ==
  Updated /\ up = "out" =>
    /\ stats_all["if_ipackets"].ifs = FirstN(numintfs)
    /\ Filling("if_ipackets") /\ Filling("word17")

\* The other words are filled in the order of the stages.
Filled ==
  /\ Updated \/ up \in {"avenrun", "boottime", "sum", "dk_xfer", "ifnet"} => Filling("cp_time")
  /\ Updated \/ up \in {"sum", "dk_xfer", "ifnet"} => Filling("boottime")
  /\ Updated \/ up \in {"dk_xfer", "ifnet"} => Filling("v_pgpgin")
  /\ Updated \/ up = "ifnet" => Filling("dk_xfer")
  /\ Updated => Filling("word23") /\ Filling("word24")

Times ==
  /\ stats_all["word24"] = stats_all["word23"]
  /\ \A w \in Words :
       /\ stats_all[w].at <= now
       /\ status = "up" /\ up = "out" => stats_all[w].at <= stats_all["word23"].at

NeverFilled == {"avenrun", "word25"}

\* What a reply says of the statistics, as far as it is encoded.
BodyRight(proc, body) ==
  \A k \in 1 .. Len(body) :
    /\ Layout[proc][k] \notin NeverFilled => body[k].of # "zero"
    /\ k = 4 => body[k].ifs = FirstN(numintfs)
    /\ Len(body) >= 8 /\ k <= 8 => body[k].at <= body[8].at
    /\ k = 9 => body[8].at <= body[9].at

Encoded ==
  status = "up" /\ main = "encode" =>
    /\ BodyRight(req, reply.body)
    /\ \A k \in 1 .. Len(reply.body) :
         /\ reply.body[k].at <= now
         /\ up = "out" => reply.body[k].at <= stats_all["word23"].at

Sent ==
  sent.proc \in Stats =>
    /\ stat_is_init /\ main \notin {"setup", "count"}
    /\ Len(sent.body) = Len(Layout[sent.proc])
    /\ BodyRight(sent.proc, sent.body)

ServerInv ==
  /\ TypeOK /\ Shapes /\ Requests /\ Calls /\ Counting
  /\ Walking /\ Walked /\ Filled /\ Times /\ Encoded /\ Sent

(***************************************************************************)
(* Facts about the layouts and the values.                                 *)
(***************************************************************************)
\* The words by their names.
LEMMA WordsAre ==
  Words = {"cp_time", "dk_xfer", "v_pgpgin", "if_ipackets", "word17", "avenrun", "boottime",
           "word23", "word24", "word25"}
BY DEF Words, Layout, Common

\* What the three structs have in common.
LEMMA LayoutRight ==
  ASSUME NEW p \in Stats
  PROVE  /\ Len(Layout[p]) \in {5, 8, 10}
         /\ \A k \in 1 .. Len(Layout[p]) : Layout[p][k] \in Words
         /\ Layout[p][4] = "if_ipackets"
         /\ Len(Layout[p]) >= 8 => Layout[p][8] = "word23"
         /\ Len(Layout[p]) = 10 => Layout[p][9] = "word24"
<1>1. CASE p = "stats_1" BY <1>1, WordsAre DEF Layout, Common
<1>2. CASE p = "stats_2" BY <1>2, WordsAre DEF Layout, Common
<1>3. CASE p = "stats_3" BY <1>3, WordsAre DEF Layout, Common
<1> QED BY <1>1, <1>2, <1>3 DEF Stats

\* Only word 25 comes behind the time of struct statstime.
LEMMA LayoutRight3 ==
  /\ Len(Layout["stats_3"]) = 10
  /\ \A k \in 1 .. Len(Layout["stats_3"]) : k > 9 => Layout["stats_3"][k] = "word25"
BY DEF Layout, Common, Stats, Words

\* Where a symbol is, is never mistaken for a word not yet filled.
LEMMA PlaceNotZero ==
  ASSUME NEW s \in Symbols
  PROVE Place(s) \in Places /\ Place(s) # "zero"
BY DEF Place, Places, AddressZero, Unlisted, Symbols

\* Adding the next interface to a sum over the first n.
LEMMA OneMore ==
  ASSUME NEW n \in Nat
  PROVE  FirstN(n) \in Seq(Nat) /\ Append(FirstN(n), n + 1) = FirstN(n + 1)
BY DEF FirstN

\* A sum over no interface.
LEMMA NoneYet == FirstN(0) = <<>>
BY DEF FirstN

\* While updatestat() runs the server has initialised itself and counted.
LEMMA Running ==
  ServerInv /\ up # "out" =>
    status = "up" /\ stat_is_init /\ main \notin {"setup", "count"} /\ numintfs \in 1 .. nifs
BY DEF ServerInv, Calls, Requests, Counting

(***************************************************************************)
(* Types.                                                                  *)
(***************************************************************************)
\* What is read now is a value,
LEMMA ValueShape ==
  ASSUME TypeOK, NEW s \in Origins
  PROVE  Value(s) \in ValueSet
BY DEF Value, ValueSet, TypeOK

\* and zero is,
LEMMA ZeroShape == Zero \in ValueSet
BY ServerBounds DEF Zero, ValueSet, Origins

\* and a value with one more interface is,
LEMMA PlusShape ==
  ASSUME TypeOK, NEW v \in ValueSet, NEW n \in Nat
  PROVE  Plus(v, n) \in ValueSet
<1>1. Append(v.ifs, n) \in Seq(Nat)
  BY DEF ValueSet
<1> QED
  BY <1>1 DEF Plus, ValueSet, TypeOK, Origins

\* and what is read at the place of a symbol is.
LEMMA ReadShape ==
  ASSUME TypeOK, NEW s \in Symbols
  PROVE  Read(Place(s)) \in ValueSet
BY PlaceNotZero, ValueShape DEF Read, Sought, Origins

\* A store of values leaves values.
LEMMA StoresShape ==
  ASSUME NEW stage, NEW next, NEW words, Stores(stage, next, words), Shapes,
         \A w \in DOMAIN words : words[w] \in ValueSet
  PROVE  Shapes'
<1>1. stats_all' \in [Words -> ValueSet]
  BY DEF Stores, Shapes
<1> QED
  BY <1>1 DEF Stores, Shapes, prog, ReplySet, ValueSet, Origins, Places

\* An empty reply to a procedure is a reply,
LEMMA NoReplyShape ==
  ASSUME NEW p \in Procs \cup {"none"}, NEW r, r = [NoReply EXCEPT !.proc = p]
  PROVE  r \in ReplySet
<1>1. <<>> \in Seq(ValueSet)
  OBVIOUS
<1>2. r = [proc |-> p, body |-> <<>>, have |-> FALSE]
  BY DEF NoReply
<1> QED
  BY <1>1, <1>2 DEF NoReply, ReplySet

\* and so is no reply at all.
LEMMA EmptyShape == NoReply \in ReplySet
<1>1. <<>> \in Seq(ValueSet)
  OBVIOUS
<1> QED
  BY <1>1 DEF NoReply, ReplySet

\* Shapes is kept: by the stores of updatestat(), and by the encoder.
LEMMA ShapesKeeps == ServerInv /\ Next => Shapes'
<1> SUFFICES ASSUME ServerInv, Next PROVE Shapes'
  OBVIOUS
<1> USE DEF ServerInv, Shapes
<1>1. CASE Restart
  <2>1. stats_all' \in [Words -> ValueSet]
    BY <1>1, ZeroShape DEF Restart
  <2> QED
    BY <1>1, <2>1, EmptyShape DEF Restart, ReplySet, ValueSet, Origins, Places
<1>2. CASE ReadHz BY <1>2, StoresShape DEF ReadHz, Reads
<1>3. CASE ReadCpTime
  <2> DEFINE words == [cp_time |-> Read(Place("cp_time"))]
  <2>1. Stores("cp_time", "avenrun", words)
    BY <1>3 DEF ReadCpTime, Reads
  <2>2. \A w \in DOMAIN words : words[w] \in ValueSet
    BY ReadShape DEF Symbols
  <2> HIDE DEF words
  <2> QED
    BY <2>1, <2>2, StoresShape
<1>4. CASE Avenrun BY <1>4, StoresShape, ReadShape DEF Avenrun, Reads, Symbols
<1>5. CASE ReadBootTime
  <2> DEFINE words == [boottime |-> Read(Place("boottime"))]
  <2>1. Stores("boottime", "sum", words)
    BY <1>5 DEF ReadBootTime, Reads
  <2>2. \A w \in DOMAIN words : words[w] \in ValueSet
    BY ReadShape DEF Symbols
  <2> HIDE DEF words
  <2> QED
    BY <2>1, <2>2, StoresShape
<1>6. CASE ReadSum
  <2> DEFINE words == [v_pgpgin |-> Read(Place("sum")), word17 |-> Read(Place("sum"))]
  <2>1. Stores("sum", "dk_xfer", words)
    BY <1>6 DEF ReadSum, Reads
  <2>2. \A w \in DOMAIN words : words[w] \in ValueSet
    BY ReadShape DEF Symbols
  <2> HIDE DEF words
  <2> QED
    BY <2>1, <2>2, StoresShape
<1>7. CASE ReadDkXfer
  <2> DEFINE words == [dk_xfer |-> Read(Place("dk_xfer")), if_ipackets |-> Zero,
                       word17 |-> Zero]
  <2>1. Stores("dk_xfer", "ifnet", words)
    BY <1>7 DEF ReadDkXfer, Zeroed, Reads
  <2>2. \A w \in DOMAIN words : words[w] \in ValueSet
    BY ReadShape, ZeroShape DEF Symbols
  <2> HIDE DEF words
  <2> QED
    BY <2>1, <2>2, StoresShape
<1>8. CASE ReadIfnet
  <2> DEFINE words == [if_ipackets |-> Plus(stats_all["if_ipackets"], off),
                       word17 |-> Plus(stats_all["word17"], off)]
  <2>0. off \in Nat /\ stats_all["if_ipackets"] \in ValueSet /\ stats_all["word17"] \in ValueSet
    BY WordsAre DEF TypeOK
  <2>1. Stores("ifnet", "ifnet", words)
    BY <1>8 DEF ReadIfnet, Reads
  <2>2. \A w \in DOMAIN words : words[w] \in ValueSet
    BY PlusShape, <2>0
  <2> HIDE DEF words
  <2> QED
    BY <2>1, <2>2, StoresShape
<1>9. CASE CurTime
  <2> DEFINE words == [word23 |-> Value("curtime"), word24 |-> Value("curtime")]
  <2>1. Stores("ifnet", "out", words)
    BY <1>9 DEF CurTime, TimeWords, BothHalves, Reads
  <2>2. \A w \in DOMAIN words : words[w] \in ValueSet
    BY ValueShape DEF Origins
  <2> HIDE DEF words
  <2> QED
    BY <2>1, <2>2, StoresShape
<1>10. CASE Dispatch BY <1>10, NoReplyShape, EmptyShape DEF Dispatch, Answer, data, Procs
<1>11. CASE Reset BY <1>11, NoReplyShape, ServerAssumption DEF Reset, On, Requests
<1>12. CASE ReadXfer
  <2>1. PICK have \in IF pos = Place("dk_xfer") THEN {HasDisk} ELSE BOOLEAN :
             Answer([reply EXCEPT !.have = have])
    BY <1>12 DEF ReadXfer
  <2>2. have \in BOOLEAN
    BY <2>1, ServerAssumption
  <2> QED
    BY <1>12, <2>1, <2>2, EmptyShape DEF ReadXfer, Answer, ReplySet
<1>13. CASE Encode
  <2>1. CASE Len(reply.body) = Len(Layout[req])
    BY <1>13, <2>1, EmptyShape DEF Encode, Answer, data
  <2>2. CASE Len(reply.body) # Len(Layout[req])
    <3> DEFINE v == stats_all[Layout[req][Len(reply.body) + 1]]
    <3>1. main = "encode" /\ req \in Stats /\ Len(reply.body) <= Len(Layout[req])
      BY <1>13 DEF Encode, On, Requests
    <3>2. v \in ValueSet
      BY <2>2, <3>1, LayoutRight DEF ReplySet
    <3>3. reply' = [reply EXCEPT !.body = Append(reply.body, v)] /\ UNCHANGED <<sent, stats_all>>
      BY <1>13, <2>2 DEF Encode, data
    <3>4. Append(reply.body, v) \in Seq(ValueSet)
      BY <3>2 DEF ReplySet
    <3> QED
      BY <3>3, <3>4 DEF ReplySet
  <2> QED BY <2>1, <2>2
<1>14. CASE Environment /\ ~(Restart)
  BY <1>14 DEF Environment, Tick, prog, data, local, signal, IfAttach, Arrive, Ring,
       env, Deliver, EndsBy, ReadFails, On
<1>15. CASE UpdateStat /\ ~(ReadHz \/ ReadCpTime \/ Avenrun \/ ReadBootTime \/ ReadSum
     \/ ReadDkXfer \/ ReadIfnet \/ CurTime)
  BY <1>15 DEF UpdateStat, CloseDown, EndsBy, At, env, prog, data, CountAlarm,
       IdleLongEnough, signal
<1>16. CASE Program /\ ~(Dispatch \/ Reset \/ ReadXfer \/ Encode)
  BY <1>16 DEF Program, Receive, On, data, local, signal, Setup, NamelistFails, Checked,
       env, CountIfnet, prog, Counted, FirstUpdate, AlarmAgain, Rearmed, Catch, Wake,
       NlistClears, NlistFinds, Nlist, SymbolMissing, EndsBy, Open, Seek, OpenFails
<1> QED BY <1>1, <1>2, <1>3, <1>4, <1>5, <1>6, <1>7, <1>8, <1>9, <1>10, <1>11, <1>12,
     <1>13, <1>14, <1>15, <1>16 DEF Next

\* What TypeOK says of the variables that hold no record.
Ranges ==
  /\ now \in 0 .. MaxNow /\ nifs \in 1 .. MaxIfs /\ missing \in Lacking
  /\ inbox \in Seq(Asked) /\ arrived \in 0 .. MaxRequests
  /\ status \in {"up", "idle", "error", "killed"}
  /\ main \in {"svc", "dispatch", "setup", "count", "updating", "signal",
               "sleep", "reset", "nlist", "finding", "open", "seek", "read", "encode"}
  /\ up \in {"out", "idle", "hz", "cp_time", "avenrun", "boottime", "sum", "dk_xfer", "ifnet"}
  /\ off \in 0 .. MaxIfs /\ i \in 0 .. MaxIfs /\ numintfs \in 0 .. MaxIfs
  /\ req \in Asked \cup {"none"}
  /\ stat_is_init \in BOOLEAN /\ caught \in BOOLEAN /\ alarm \in {"off", "set", "due"}
  /\ sincelastreq \in 0 .. CLOSEDOWN
  /\ unlisted \subseteq Symbols /\ kmem \in 0 .. MaxFds /\ pos \in Places

\* TypeOK is Ranges and what Shapes says of records.
LEMMA TypeParts == Ranges /\ Shapes => TypeOK
<1> SUFFICES ASSUME Ranges, Shapes PROVE TypeOK
  OBVIOUS
<1>1. reply.proc \in Procs \cup {"none"} /\ sent.proc \in Procs \cup {"none"}
  BY DEF Shapes, ReplySet
<1>2. DOMAIN stats_all = Words /\ \A w \in Words : stats_all[w].at \in 0 .. MaxNow
  BY DEF Shapes, ValueSet
<1> QED
  BY <1>1, <1>2 DEF Ranges, TypeOK

\* The least values are within the bounds.
LEMMA Bounds ==
  /\ {0} \subseteq 0 .. MaxIfs /\ 0 \in 0 .. CLOSEDOWN /\ 0 \in 0 .. MaxFds
  /\ 0 \in 0 .. MaxNow /\ 0 \in 0 .. MaxRequests /\ 1 \in 1 .. MaxIfs /\ Elsewhere \in Places
BY ServerAssumption, ServerBounds DEF Places

\* Ranges holds of a fresh process.
LEMMA RangesInit == Init => Ranges
<1>1. <<>> \in Seq(Asked)
  OBVIOUS
<1> QED
  BY <1>1, Bounds DEF Init, Ranges

\* Ranges is kept by every action.
LEMMA RangesKeeps == ServerInv /\ Next => Ranges'
<1> SUFFICES ASSUME ServerInv, Next PROVE Ranges'
  OBVIOUS
<1> USE DEF ServerInv, TypeOK, Ranges, Places
<1>1. CASE Tick BY <1>1, ServerAssumption, ServerBounds DEF Tick, prog, data, local,
  signal
<1>2. CASE IfAttach BY <1>2, ServerAssumption, ServerBounds DEF IfAttach, prog, data,
  local, signal
<1>3. CASE Arrive BY <1>3, ServerAssumption, ServerBounds DEF Arrive, prog, data, local,
  signal
<1>4. CASE Restart BY <1>4, Bounds DEF Restart, env
<1>5. CASE Ring BY <1>5 DEF Ring, env, prog, data, local
<1>6. CASE Deliver BY <1>6 DEF Deliver, EndsBy, env, prog, data
<1>7. CASE ReadFails BY <1>7 DEF ReadFails, EndsBy, env, prog, data, On
<1>8. CASE CloseDown BY <1>8 DEF CloseDown, EndsBy, At, env, prog, data
<1>9. CASE CountAlarm BY <1>9, ServerAssumption, ServerBounds DEF CountAlarm, At,
  IdleLongEnough, env, prog, signal
<1>10. CASE ReadHz BY <1>10 DEF ReadHz, Reads, Stores, At, env, prog, signal
<1>11. CASE ReadCpTime BY <1>11 DEF ReadCpTime, Reads, Stores, At, env, prog, signal
<1>12. CASE Avenrun
  <2>1. pos' \in Places
    BY <1>12, PlaceNotZero DEF Avenrun, Reads, Symbols, Places
  <2> QED
    BY <1>12, <2>1 DEF Avenrun, Reads, Stores, At, env, prog, signal
<1>13. CASE ReadBootTime BY <1>13 DEF ReadBootTime, Reads, Stores, At, env, prog, signal
<1>14. CASE ReadSum BY <1>14 DEF ReadSum, Reads, Stores, At, env, prog, signal
<1>15. CASE ReadDkXfer BY <1>15, Bounds DEF ReadDkXfer, Zeroed, Reads, Stores, At, env,
  prog, signal
<1>16. CASE ReadIfnet BY <1>16, ServerAssumption, ServerBounds, Running DEF ReadIfnet,
  MoreIfnets, Reads, Stores, At, env, prog, signal, NextIfnet, Walking
<1>17. CASE CurTime BY <1>17 DEF CurTime, MoreIfnets, TimeWords, BothHalves, Rearmed, Stores, At,
  env, prog
<1>18. CASE Receive BY <1>18 DEF Receive, On, data, local, signal
<1>19. CASE Dispatch BY <1>19 DEF Dispatch, Answer, On, env, data, local, signal
<1>20. CASE Setup BY <1>20, Bounds, ServerAssumption, ServerBounds DEF Setup,
  NamelistFails, Checked, On, env, signal
<1>21. CASE CountIfnet BY <1>21, ServerAssumption, ServerBounds, Running DEF CountIfnet,
  On, env, prog, signal, NextIfnet, Counting
<1>22. CASE Counted BY <1>22 DEF Counted, FirstUpdate, On, env, data, signal
<1>23. CASE AlarmAgain BY <1>23 DEF AlarmAgain, Rearmed, On, env, data, local
<1>24. CASE Catch BY <1>24 DEF Catch, On, env, data, local
<1>25. CASE Wake BY <1>25 DEF Wake, On, env, data, local, signal
<1>26. CASE Reset BY <1>26, Bounds DEF Reset, On, env, local, signal
<1>27. CASE SymbolMissing BY <1>27 DEF SymbolMissing, NamelistFails, Checked, EndsBy,
  On, env, prog, data
<1>28. CASE Open BY <1>28, ServerAssumption, ServerBounds DEF Open, On, env, local,
  signal
<1>29. CASE Seek BY <1>29, PlaceNotZero DEF Seek, On, env, local, signal, Symbols
<1>30. CASE ReadXfer BY <1>30 DEF ReadXfer, Answer, On, env, local, signal
<1>31. CASE Encode BY <1>31 DEF Encode, Answer, On, env, data, local, signal
<1>32. CASE OpenFails BY <1>32 DEF OpenFails, NamelistFails, Checked, EndsBy, On, env,
  prog, data
<1>33. CASE NlistClears BY <1>33 DEF NlistClears, Nlist, On, env, local, signal
<1>34. CASE NlistFinds BY <1>34 DEF NlistFinds, Nlist, On, env, local, signal
<1> QED BY <1>1, <1>2, <1>3, <1>4, <1>5, <1>6, <1>7, <1>8, <1>9, <1>10, <1>11, <1>12,
       <1>13, <1>14, <1>15, <1>16, <1>17, <1>18, <1>19, <1>20, <1>21, <1>22, <1>23,
       <1>24, <1>25, <1>26, <1>27, <1>28, <1>29, <1>30, <1>31, <1>32, <1>33, <1>34
     DEF Next, Environment, UpdateStat, Program

(***************************************************************************)
(* How requests, calls of updatestat() and the count of interfaces go on.  *)
(***************************************************************************)
\* Requests is kept: a request moves as its procedure says.
LEMMA RequestsKeeps == ServerInv /\ Next => Requests'
<1> SUFFICES ASSUME ServerInv, Next PROVE Requests'
  OBVIOUS
<1> USE DEF ServerInv, Requests, TypeOK
<1>1. CASE Receive
  <2>1. Head(inbox) \in Asked
    BY <1>1 DEF Receive
  <2> QED
    BY <1>1, <2>1 DEF Receive, On
<1>2. CASE Dispatch BY <1>2 DEF Dispatch, Answer, On
<1>3. CASE Reset
  <2>1. reply' = [proc |-> req, body |-> <<>>, have |-> FALSE]
    BY <1>3 DEF Reset, NoReply
  <2>2. req \in Procs \ {"null"} /\ stat_is_init
    BY <1>3, ServerAssumption DEF Reset, On
  <2>3. Len(<<>>) = 0
    OBVIOUS
  <2> QED
    BY <1>3, <2>1, <2>2, <2>3, LayoutRight DEF Reset, On, Procs
<1>4. CASE ReadXfer BY <1>4 DEF ReadXfer, Answer, On
<1>5. CASE Encode
  <2>1. CASE Len(reply.body) = Len(Layout[req])
    BY <1>5, <2>1 DEF Encode, Answer
  <2>2. CASE Len(reply.body) # Len(Layout[req])
    <3> DEFINE v == stats_all[Layout[req][Len(reply.body) + 1]]
    <3>1. /\ reply' = [reply EXCEPT !.body = Append(reply.body, v)]
          /\ UNCHANGED <<main, req, stat_is_init>>
      BY <1>5, <2>2 DEF Encode
    <3>2. /\ main = "encode" /\ req \in Stats /\ reply.proc = req
          /\ Len(reply.body) <= Len(Layout[req])
      BY <1>5 DEF Encode, On
    <3>3. reply'.proc = reply.proc /\ reply'.body = Append(reply.body, v)
      BY <3>1 DEF Shapes, ReplySet
    <3>4. v \in ValueSet
      BY <2>2, <3>2, LayoutRight, SMTT(30) DEF Shapes, ReplySet
    <3>5. Len(reply'.body) = Len(reply.body) + 1
      BY <3>3, <3>4 DEF Shapes, ReplySet
    <3>6. Len(reply'.body) <= Len(Layout[req])
      BY <2>2, <3>2, <3>5, LayoutRight, SMTT(30) DEF Shapes, ReplySet
    <3> QED
      BY <3>1, <3>2, <3>3, <3>6
  <2> QED BY <2>1, <2>2
<1>6. CASE Environment
  BY <1>6 DEF Environment, Tick, prog, data, local, signal, IfAttach, Arrive, Restart,
       env, Ring, Deliver, EndsBy, ReadFails, On
<1>7. CASE UpdateStat
  BY <1>7 DEF UpdateStat, CloseDown, EndsBy, At, env, prog, data, CountAlarm,
       IdleLongEnough, signal, ReadHz, Reads, Stores, ReadCpTime, Avenrun, ReadBootTime,
       ReadSum, ReadDkXfer, Zeroed, ReadIfnet, MoreIfnets, CurTime, TimeWords, BothHalves, Rearmed
<1>8. CASE Program /\ ~(Receive \/ Dispatch \/ Reset \/ ReadXfer \/ Encode)
  BY <1>8 DEF Program, Setup, NamelistFails, Checked, On, env, signal, CountIfnet, prog,
       Counted, FirstUpdate, data, AlarmAgain, Rearmed, local, Catch, Wake,
       NlistClears, NlistFinds, Nlist, SymbolMissing, EndsBy, Open, Seek, OpenFails
<1> QED BY <1>1, <1>2, <1>3, <1>4, <1>5, <1>6, <1>7, <1>8 DEF Next

\* Calls is kept: nothing but stat_init() and the handler calls updatestat().
LEMMA CallsKeeps == ServerInv /\ Next => Calls'
<1> SUFFICES ASSUME ServerInv, Next PROVE Calls'
  OBVIOUS
<1> USE DEF ServerInv, Calls, Requests
<1>1. CASE Environment
  BY <1>1 DEF Environment, Tick, prog, data, local, signal, IfAttach, Arrive, Restart,
       env, Ring, Deliver, EndsBy, ReadFails, On
<1>2. CASE UpdateStat
  BY <1>2 DEF UpdateStat, CloseDown, EndsBy, At, env, prog, data, CountAlarm,
       IdleLongEnough, signal, ReadHz, Reads, Stores, ReadCpTime, Avenrun, ReadBootTime,
       ReadSum, ReadDkXfer, Zeroed, ReadIfnet, MoreIfnets, CurTime, TimeWords, BothHalves, Rearmed
<1>3. CASE Program
  BY <1>3 DEF Program, Receive, On, data, local, signal, Dispatch, Answer, env, Setup,
       NamelistFails, Checked, CountIfnet, prog, Counted, FirstUpdate, AlarmAgain,
       Rearmed, Catch, Wake, Reset, NlistClears, NlistFinds, Nlist, SymbolMissing, EndsBy, Open, Seek, ReadXfer, Encode,
       OpenFails
<1> QED BY <1>1, <1>2, <1>3 DEF Next

\* Counting is kept: interfaces come, and none goes.
LEMMA CountingKeeps == ServerInv /\ Next => Counting'
<1> SUFFICES ASSUME ServerInv, Next PROVE Counting'
  OBVIOUS
<1> USE DEF ServerInv, Counting, Calls, Requests, TypeOK, NextIfnet
<1>1. CASE Environment
  BY <1>1 DEF Environment, Tick, prog, data, local, signal, IfAttach, Arrive, Restart,
       env, Ring, Deliver, EndsBy, ReadFails, On
<1>2. CASE UpdateStat
  BY <1>2 DEF UpdateStat, CloseDown, EndsBy, At, env, prog, data, CountAlarm,
       IdleLongEnough, signal, ReadHz, Reads, Stores, ReadCpTime, Avenrun, ReadBootTime,
       ReadSum, ReadDkXfer, Zeroed, ReadIfnet, MoreIfnets, CurTime, TimeWords, BothHalves, Rearmed
<1>3. CASE Program
  BY <1>3 DEF Program, Receive, On, data, local, signal, Dispatch, Answer, env, Setup,
       NamelistFails, Checked, CountIfnet, prog, Counted, FirstUpdate, AlarmAgain,
       Rearmed, Catch, Wake, Reset, NlistClears, NlistFinds, Nlist, SymbolMissing, EndsBy, Open, Seek, ReadXfer, Encode,
       OpenFails
<1> QED BY <1>1, <1>2, <1>3 DEF Next

(***************************************************************************)
(* The words at each stage of updatestat().                                *)
(***************************************************************************)
\* Walking is kept: each round adds the interface behind those already added.
LEMMA WalkingKeeps == ServerInv /\ Next => Walking'
<1> SUFFICES ASSUME ServerInv, Next PROVE Walking'
  OBVIOUS
<1> USE DEF ServerInv, Walking, Filling
<1>1. CASE ReadDkXfer
  BY <1>1, WordsAre, NoneYet, Running DEF TypeOK, ReadDkXfer, Zeroed, Zero, Reads,
       Stores, At, env, prog, signal
<1>2. CASE ReadIfnet
  <2>1. off = i + 1 /\ i < numintfs /\ numintfs <= nifs /\ {off, i, numintfs, nifs} \subseteq Nat
    BY <1>2, Running DEF ReadIfnet, MoreIfnets, At, Reads, Stores, TypeOK
  <2>2. off <= nifs /\ stats_all["if_ipackets"].ifs = FirstN(i)
    BY <1>2, <2>1 DEF ReadIfnet, MoreIfnets, At, Reads, Stores
  <2>3. /\ stats_all'["if_ipackets"] = Plus(stats_all["if_ipackets"], off)
        /\ stats_all'["word17"] = Plus(stats_all["word17"], off)
        /\ off' = NextIfnet(off) /\ i' = i + 1 /\ UNCHANGED <<numintfs, nifs>>
    BY <1>2, WordsAre DEF ReadIfnet, Reads, Stores, env
  <2>4. stats_all'["if_ipackets"].ifs = FirstN(i')
    <3>1. Plus(stats_all["if_ipackets"], off).ifs = Append(FirstN(i), i + 1)
      BY <2>1, <2>2 DEF Plus
    <3> QED
      BY <2>1, <2>3, <3>1, OneMore
  <2>5. Filling("if_ipackets")' /\ Filling("word17")'
    BY <2>3 DEF Filling, Plus
  <2> QED
    BY <2>1, <2>2, <2>3, <2>4, <2>5 DEF NextIfnet
<1>3. CASE Restart BY <1>3 DEF Restart
<1>4. CASE IfAttach BY <1>4 DEF IfAttach, Filling, TypeOK, prog, data, local, signal
<1>5. CASE Deliver BY <1>5 DEF Deliver, EndsBy, Filling
<1>6. CASE Environment /\ ~(IfAttach \/ Restart \/ Deliver)
  BY <1>6 DEF Environment, Tick, prog, data, local, signal, Arrive, Ring, env,
       ReadFails, EndsBy, On
<1>7. CASE UpdateStat /\ ~(ReadDkXfer \/ ReadIfnet)
  BY <1>7 DEF UpdateStat, CloseDown, EndsBy, At, env, prog, data, CountAlarm,
       IdleLongEnough, signal, ReadHz, Reads, Stores, ReadCpTime, Avenrun, ReadBootTime,
       ReadSum, CurTime, MoreIfnets, TimeWords, BothHalves, Rearmed
<1>8. CASE Program
  BY <1>8 DEF Program, Receive, On, data, local, signal, Dispatch, Answer, env, Setup,
       NamelistFails, Checked, CountIfnet, prog, Counted, FirstUpdate, AlarmAgain,
       Rearmed, Catch, Wake, Reset, NlistClears, NlistFinds, Nlist, SymbolMissing, EndsBy, Open, Seek, ReadXfer, Encode,
       OpenFails
<1> QED BY <1>1, <1>2, <1>3, <1>4, <1>5, <1>6, <1>7, <1>8 DEF Next

\* Walked is kept: the loop ends with all counted interfaces added.
LEMMA WalkedKeeps == ServerInv /\ Next => Walked'
<1> SUFFICES ASSUME ServerInv, Next PROVE Walked'
  OBVIOUS
<1> USE DEF ServerInv, Walking, Walked, Filling, Updated, Calls, Requests, Counting,
     TypeOK
<1>1. CASE CurTime
  <2>1. /\ up = "ifnet" /\ ~MoreIfnets /\ numintfs \in 1 .. nifs
        /\ {off, i, numintfs, nifs} \subseteq Nat
    BY <1>1, Running DEF CurTime, Stores, At
  <2>2. i = numintfs /\ i > 0
    BY <2>1 DEF MoreIfnets
  <2>3. /\ stats_all'["if_ipackets"] = stats_all["if_ipackets"]
        /\ stats_all'["word17"] = stats_all["word17"] /\ numintfs' = numintfs
    BY <1>1, WordsAre DEF CurTime, Stores, TimeWords, BothHalves
  <2> QED
    BY <2>1, <2>2, <2>3
<1>2. CASE Environment
  BY <1>2 DEF Environment, Tick, prog, data, local, signal, IfAttach, Arrive, Restart,
       env, Ring, Deliver, EndsBy, ReadFails, On
<1>3. CASE UpdateStat /\ ~(CurTime)
  BY <1>3 DEF UpdateStat, CloseDown, EndsBy, At, env, prog, data, CountAlarm,
       IdleLongEnough, signal, ReadHz, Reads, Stores, ReadCpTime, Avenrun, ReadBootTime,
       ReadSum, ReadDkXfer, Zeroed, ReadIfnet, MoreIfnets
<1>4. CASE Program
  <2>1. CASE Receive
    BY <2>1 DEF Receive, On, env, prog, data, local, signal
  <2>2. CASE Dispatch
    BY <2>2 DEF Dispatch, Answer, On, env, prog, data, local, signal
  <2>3. CASE Setup
    BY <2>3 DEF Setup, NamelistFails, Checked, On, env, prog, data, local, signal
  <2>4. CASE CountIfnet
    BY <2>4 DEF CountIfnet, On, env, prog, data, local, signal
  <2>5. CASE Counted
    BY <2>5 DEF Counted, FirstUpdate, On, env, prog, data, local, signal
  <2>6. CASE AlarmAgain
    BY <2>6 DEF AlarmAgain, Rearmed, On, env, prog, data, local, signal
  <2>7. CASE Catch
    BY <2>7 DEF Catch, On, env, prog, data, local, signal
  <2>8. CASE Wake
    BY <2>8 DEF Wake, On, env, prog, data, local, signal
  <2>9. CASE Reset
    BY <2>9 DEF Reset, On, env, prog, data, local, signal
  <2>10. CASE SymbolMissing
    BY <2>10 DEF SymbolMissing, NamelistFails, Checked, EndsBy, On, env, prog, data, local, signal
  <2>11. CASE Open
    BY <2>11 DEF Open, On, env, prog, data, local, signal
  <2>12. CASE Seek
    BY <2>12 DEF Seek, On, env, prog, data, local, signal
  <2>13. CASE ReadXfer
    BY <2>13 DEF ReadXfer, On, env, prog, data, local, signal
  <2>14. CASE Encode
    BY <2>14 DEF Encode, On, env, prog, data, local, signal
  <2>15. CASE OpenFails
    BY <2>15 DEF OpenFails, EndsBy, On, env, prog, data, local, signal
  <2>16. CASE NlistClears
    BY <2>16 DEF NlistClears, Nlist, On, env, prog, data, local, signal
  <2>17. CASE NlistFinds
    BY <2>17 DEF NlistFinds, Nlist, On, env, prog, data, local, signal
  <2> QED
    BY <1>4, <2>1, <2>2, <2>3, <2>4, <2>5, <2>6, <2>7, <2>8,
       <2>9, <2>10, <2>11, <2>12, <2>13, <2>14, <2>15, <2>16, <2>17 DEF Program
<1> QED BY <1>1, <1>2, <1>3, <1>4 DEF Next

\* Filled is kept: each stage fills its words, and none but the sums is zeroed.
LEMMA FilledKeeps == ServerInv /\ Next => Filled'
<1> SUFFICES ASSUME ServerInv, Next PROVE Filled'
  OBVIOUS
<1> USE DEF ServerInv, Filled, Filling, Updated, Calls, Requests, Zero
<1>1. CASE ReadCpTime
  BY <1>1, PlaceNotZero, WordsAre DEF ReadCpTime, Symbols, Read, Sought, Value, Reads,
       Stores, At, env, prog, signal
<1>2. CASE Avenrun
  BY <1>2, WordsAre DEF Avenrun, Read, Sought, Value, Reads, Stores, At, env, prog,
       signal
<1>3. CASE ReadBootTime
  BY <1>3, PlaceNotZero, WordsAre DEF ReadBootTime, Symbols, Read, Sought, Value, Reads,
       Stores, At, env, prog, signal
<1>4. CASE ReadSum
  BY <1>4, PlaceNotZero, WordsAre DEF ReadSum, Symbols, Read, Sought, Value, Reads,
       Stores, At, env, prog, signal
<1>5. CASE ReadDkXfer
  BY <1>5, PlaceNotZero, WordsAre DEF ReadDkXfer, Symbols, Zeroed, Read, Sought, Value,
       Reads, Stores, At, env, prog, signal
<1>6. CASE ReadHz BY <1>6, WordsAre DEF ReadHz, Reads, Stores, At, env, prog, signal
<1>7. CASE ReadIfnet BY <1>7, WordsAre DEF ReadIfnet, Reads, Stores, At, env, prog, signal
<1>8. CASE CurTime
  BY <1>8, WordsAre DEF CurTime, TimeWords, BothHalves, Value, Reads, Stores, At, env, prog, signal
<1>9. CASE Environment
  BY <1>9 DEF Environment, Tick, prog, data, local, signal, IfAttach, Arrive, Restart,
       env, Ring, Deliver, EndsBy, ReadFails, On
<1>10. CASE UpdateStat /\ ~(ReadHz \/ ReadCpTime \/ Avenrun \/ ReadBootTime \/ ReadSum
     \/ ReadDkXfer \/ ReadIfnet \/ CurTime)
  BY <1>10 DEF UpdateStat, CloseDown, EndsBy, At, env, prog, data, CountAlarm,
       IdleLongEnough, signal
<1>11. CASE Program
  BY <1>11 DEF Program, Receive, On, data, local, signal, Dispatch, Answer, env, Setup,
       NamelistFails, Checked, CountIfnet, prog, Counted, FirstUpdate, AlarmAgain,
       Rearmed, Catch, Wake, Reset, NlistClears, NlistFinds, Nlist, SymbolMissing, EndsBy, Open, Seek, ReadXfer, Encode,
       OpenFails
<1> QED BY <1>1, <1>2, <1>3, <1>4, <1>5, <1>6, <1>7, <1>8, <1>9, <1>10, <1>11 DEF Next

\* A word that updatestat() stores comes from a kernel of now.
LEMMA StoresTimes ==
  ASSUME NEW stage, NEW next, NEW words, Stores(stage, next, words), Times,
         next # "out", now \in Nat, {"word23", "word24"} \cap DOMAIN words = {},
         \A w \in DOMAIN words : words[w].at \in 0 .. now
  PROVE  Times'
<1>1. \A w \in Words : stats_all'[w].at <= now
  BY DEF Stores, Times
<1>2. stats_all'["word24"] = stats_all'["word23"]
  BY WordsAre DEF Stores, Times
<1> QED
  BY <1>1, <1>2 DEF Stores, Times, env

\* Times is kept: the time of day is read last.
LEMMA TimesKeeps == ServerInv /\ Next => Times'
<1> SUFFICES ASSUME ServerInv, Next PROVE Times'
  OBVIOUS
<1> USE DEF ServerInv, Times, TypeOK
<1>1. CASE Tick BY <1>1 DEF Tick, prog, data, local, signal
<1>2. CASE Restart BY <1>2, WordsAre, SMTT(30) DEF Restart, Zero, env
<1>3. CASE ReadHz BY <1>3, StoresTimes DEF ReadHz, Reads
<1>4. CASE ReadCpTime BY <1>4, StoresTimes DEF ReadCpTime, Reads, Read, Value
<1>5. CASE Avenrun BY <1>5, StoresTimes DEF Avenrun, Reads, Read, Value
<1>6. CASE ReadBootTime BY <1>6, StoresTimes DEF ReadBootTime, Reads, Read, Value
<1>7. CASE ReadSum BY <1>7, StoresTimes, SMTT(30) DEF ReadSum, Reads, Read, Value
<1>8. CASE ReadDkXfer
  <2>1. \A w \in DOMAIN Zeroed : Zeroed[w].at \in 0 .. now
    BY DEF Zeroed, Zero, Read, Value
  <2>2. {"word23", "word24"} \cap DOMAIN Zeroed = {}
    BY DEF Zeroed
  <2> QED
    BY <1>8, <2>1, <2>2, StoresTimes DEF ReadDkXfer, Reads
<1>9. CASE ReadIfnet
  <2> DEFINE words == [if_ipackets |-> Plus(stats_all["if_ipackets"], off),
                       word17 |-> Plus(stats_all["word17"], off)]
  <2>1. Stores("ifnet", "ifnet", words)
    BY <1>9 DEF ReadIfnet, Reads
  <2>2. \A w \in DOMAIN words : words[w].at \in 0 .. now
    BY DEF Plus
  <2>3. {"word23", "word24"} \cap DOMAIN words = {}
    OBVIOUS
  <2> HIDE DEF words
  <2> QED
    BY <2>1, <2>2, <2>3, StoresTimes
<1>10. CASE CurTime
  <2>1. /\ stats_all'["word23"].at = now /\ stats_all'["word24"] = stats_all'["word23"]
        /\ now' = now /\ now \in Nat
    BY <1>10, WordsAre DEF CurTime, TimeWords, BothHalves, Value, Stores, env
  <2>2. ASSUME NEW w \in Words, w \notin {"word23", "word24"} PROVE stats_all'[w] = stats_all[w]
    BY <1>10, <2>2 DEF CurTime, TimeWords, BothHalves, Stores
  <2>3. ASSUME NEW w \in Words PROVE stats_all'[w].at <= now
    BY <2>1, <2>2
  <2> QED
    BY <2>1, <2>3
<1>11. CASE Deliver BY <1>11, Running DEF Deliver, EndsBy, env, prog, data
<1>12. CASE Environment /\ ~(Tick \/ Restart \/ Deliver)
  BY <1>12 DEF Environment, IfAttach, prog, data, local, signal, Arrive, Ring, env,
       ReadFails, EndsBy, On
<1>13. CASE UpdateStat /\ ~(ReadHz \/ ReadCpTime \/ Avenrun \/ ReadBootTime \/ ReadSum
     \/ ReadDkXfer \/ ReadIfnet \/ CurTime)
  BY <1>13 DEF UpdateStat, CloseDown, EndsBy, At, env, prog, data, CountAlarm,
       IdleLongEnough, signal
<1>14. CASE Program
  BY <1>14 DEF Program, Receive, On, data, local, signal, Dispatch, Answer, env, Setup,
       NamelistFails, Checked, CountIfnet, prog, Counted, FirstUpdate, AlarmAgain,
       Rearmed, Catch, Wake, Reset, NlistClears, NlistFinds, Nlist, SymbolMissing, EndsBy, Open, Seek, ReadXfer, Encode,
       OpenFails
<1> QED BY <1>1, <1>2, <1>3, <1>4, <1>5, <1>6, <1>7, <1>8, <1>9, <1>10, <1>11, <1>12,
     <1>13, <1>14 DEF Next

(***************************************************************************)
(* Replies: encoded a word at a time, and sent.                            *)
(***************************************************************************)
\* The empty reply to a procedure.
LEMMA NoReplyProc ==
  ASSUME NEW p, NEW r, r = [NoReply EXCEPT !.proc = p]
  PROVE  r.proc = p /\ r.body = <<>>
BY DEF NoReply

\* Only a fresh count changes what BodyRight says of a body.
LEMMA BodyKept ==
  ASSUME NEW p, NEW b, BodyRight(p, b), numintfs' = numintfs
  PROVE  BodyRight(p, b)'
BY DEF BodyRight, FirstN, NeverFilled, Layout, Common

\* The encoder takes the next word of the union.
LEMMA NextWord ==
  ASSUME ServerInv, On("encode"), NEW n \in Nat, n = Len(reply.body), n # Len(Layout[req])
  PROVE  /\ Append(reply.body, stats_all[Layout[req][n + 1]]) \in Seq(ValueSet)
         /\ BodyRight(req, Append(reply.body, stats_all[Layout[req][n + 1]]))
         /\ \A k \in 1 .. n + 1 :
              Append(reply.body, stats_all[Layout[req][n + 1]])[k].at
                <= stats_all["word23"].at
<1> DEFINE v == stats_all[Layout[req][n + 1]]
           b == Append(reply.body, v)
<1>1. /\ req \in Stats /\ n <= Len(Layout[req]) /\ reply.body \in Seq(ValueSet)
      /\ up = "out" /\ status = "up" /\ main = "encode" /\ stat_is_init
  BY DEF ServerInv, Requests, Shapes, ReplySet, On
<1>2. Layout[req][n + 1] \in Words /\ n + 1 \in 1 .. Len(Layout[req])
  BY <1>1, LayoutRight
<1>3. v \in ValueSet
  BY <1>2 DEF ServerInv, Shapes
<1>4. b \in Seq(ValueSet) /\ Len(b) = n + 1 /\ b[n + 1] = v
      /\ \A k \in 1 .. n : b[k] = reply.body[k]
  BY <1>1, <1>3
<1>5. Updated
  BY <1>1 DEF Updated
<1>6. Layout[req][n + 1] \notin NeverFilled => v.of # "zero"
  BY <1>1, <1>2, <1>5, WordsAre DEF ServerInv, Filled, Filling, Walked, NeverFilled
<1>7. n + 1 = 4 => v.ifs = FirstN(numintfs)
  BY <1>1, <1>5, LayoutRight DEF ServerInv, Walked
<1>8. n + 1 = 8 => v = stats_all["word23"]
  BY <1>1, <1>2, LayoutRight
<1>14. n + 1 = 9 => v = stats_all["word23"]
  <2>1. ASSUME n + 1 = 9 PROVE Len(Layout[req]) = 10 /\ Layout[req][9] = "word24"
    BY <1>1, <1>2, <2>1, LayoutRight
  <2> QED
    BY <2>1 DEF ServerInv, Times
<1>9. BodyRight(req, reply.body) /\ \A k \in 1 .. n : reply.body[k].at <= stats_all["word23"].at
  BY <1>1 DEF ServerInv, Encoded
<1>10. v.at <= stats_all["word23"].at
  BY <1>1, <1>2 DEF ServerInv, Times
<1>11. \A k \in 1 .. n + 1 : b[k].at <= stats_all["word23"].at
  BY <1>4, <1>9, <1>10
<1>12. ASSUME NEW k \in 1 .. Len(b)
       PROVE  /\ Layout[req][k] \notin NeverFilled => b[k].of # "zero"
              /\ k = 4 => b[k].ifs = FirstN(numintfs)
              /\ Len(b) >= 8 /\ k <= 8 => b[k].at <= b[8].at
              /\ k = 9 => b[8].at <= b[9].at
  <2>1. CASE k = n + 1
    <3>1. Len(b) >= 8 /\ k <= 8 => b[k] = b[8]
      BY <2>1, <1>4
    <3>2. v.at \in Int
      BY <1>3 DEF ValueSet
    <3>3. ASSUME k = 9 PROVE b[8].at <= b[9].at
      <4>1. b[9] = stats_all["word23"] /\ 8 \in 1 .. n + 1
        BY <2>1, <3>3, <1>4, <1>14
      <4> HIDE DEF b
      <4> QED
        BY <4>1, <1>11
    <3> QED
      BY <2>1, <3>1, <3>2, <3>3, <1>4, <1>6, <1>7
  <2>2. CASE k \in 1 .. n
    <3>1. b[k] = reply.body[k]
      BY <2>2, <1>4
    <3>2. Layout[req][k] \notin NeverFilled => b[k].of # "zero"
      BY <2>2, <3>1, <1>9 DEF BodyRight
    <3>3. k = 4 => b[k].ifs = FirstN(numintfs)
      BY <2>2, <3>1, <1>9 DEF BodyRight
    <3>4. ASSUME n + 1 = 8 PROVE b[k].at <= b[8].at
      BY <2>2, <3>1, <3>4, <1>4, <1>8, <1>9
    <3>5. ASSUME n >= 8, k <= 8 PROVE b[k].at <= b[8].at
      <4>1. b[8] = reply.body[8]
        BY <3>5, <1>4
      <4> QED
        BY <2>2, <3>1, <3>5, <4>1, <1>9 DEF BodyRight
    <3>6. Len(b) = n + 1
      BY <1>4
    <3>7. ASSUME k = 9 PROVE b[8].at <= b[9].at
      <4>1. b[8] = reply.body[8] /\ b[9] = reply.body[9]
        BY <2>2, <3>7, <1>4
      <4> QED
        BY <2>2, <3>7, <4>1, <1>9 DEF BodyRight
    <3> HIDE DEF b
    <3> QED
      BY <3>2, <3>3, <3>4, <3>5, <3>6, <3>7
  <2> QED BY <2>1, <2>2, <1>4
<1>13. BodyRight(req, b)
  BY <1>12 DEF BodyRight
<1> QED
  BY <1>4, <1>11, <1>13

\* Whatever happens while a reply is being encoded leaves it alone; updatestat()
\* comes back with a new time of day.
Moved ==
  /\ main = "encode" /\ status = "up" /\ UNCHANGED <<req, reply, numintfs>>
  /\ now' \in {now, now + 1}
  /\ up' = "out" => \/ up = "out" /\ stats_all' = stats_all
                    \/ stats_all'["word23"] = Value("curtime")

\* Encoded is kept, by the next word and by an updatestat() between two words.
LEMMA EncodedKeeps == ServerInv /\ Next => Encoded'
<1> SUFFICES ASSUME ServerInv, Next, status' = "up", main' = "encode"
             PROVE  /\ BodyRight(req, reply.body)'
                    /\ \A k \in 1 .. Len(reply'.body) :
                         /\ reply'.body[k].at <= now'
                         /\ up' = "out" => reply'.body[k].at <= stats_all'["word23"].at
  BY DEF Encoded
<1>1. CASE Encode
  <2> DEFINE n == Len(reply.body)
             v == stats_all[Layout[req][n + 1]]
  <2>1. On("encode") /\ n # Len(Layout[req])
    BY <1>1 DEF Encode, Answer
  <2>2. n \in Nat
    BY DEF ServerInv, Shapes, ReplySet
  <2>3. reply'.body = Append(reply.body, v)
    BY <1>1, <2>1 DEF Encode, ServerInv, Shapes, ReplySet
  <2>4. UNCHANGED <<req, stats_all, numintfs, now>>
    BY <1>1, <2>1 DEF Encode, data, env
  <2>5. BodyRight(req, Append(reply.body, v))
        /\ \A k \in 1 .. n + 1 : Append(reply.body, v)[k].at <= stats_all["word23"].at
    BY <2>1, <2>2, NextWord
  <2>6. BodyRight(req, reply'.body)
    BY <2>3, <2>5
  <2>7. Len(reply'.body) = n + 1 /\ \A k \in 1 .. n + 1 : reply'.body[k].at \in Int
    <3>1. Append(reply.body, v) \in Seq(ValueSet)
      BY <2>1, <2>2, NextWord
    <3> QED
      <4>1. reply.body \in Seq(ValueSet) BY DEF ServerInv, Shapes, ReplySet
      <4>2. v \in ValueSet BY <2>1, LayoutRight, <2>2 DEF ServerInv, Requests, Shapes, On
      <4>3. Len(Append(reply.body, v)) = n + 1 BY <4>1, <4>2
      <4>4. \A x \in ValueSet : x.at \in Int BY DEF ValueSet
      <4> QED BY <2>3, <3>1, <4>3, <4>4
  <2>8. stats_all["word23"].at <= now /\ stats_all["word23"].at \in Int /\ now \in Int
    BY WordsAre DEF ServerInv, Times, TypeOK
  <2>9. \A k \in 1 .. Len(reply'.body) : reply'.body[k].at <= stats_all["word23"].at
    BY <2>3, <2>5, <2>7
  <2>10. \A k \in 1 .. Len(reply'.body) : reply'.body[k].at <= now
    BY <2>7, <2>8, <2>9
  <2>11. BodyRight(req, reply.body)'
    BY <2>4, <2>6 DEF BodyRight, FirstN, NeverFilled, Layout, Common
  <2> QED
    BY <2>4, <2>9, <2>10, <2>11
<1>2. CASE Reset
  <2>1. reply'.body = <<>>
    BY <1>2, NoReplyProc DEF Reset
  <2> QED
    BY <2>1 DEF BodyRight
<1>3. CASE ~(Encode \/ Reset)
  <2>1. Moved
    <3>1. CASE Environment
      BY <1>3, <3>1 DEF Moved, Environment, Tick, prog, data, local, signal, IfAttach,
           Arrive,
         Restart, env, Ring, Deliver, EndsBy, ReadFails, On
    <3>2. CASE UpdateStat
      <4>1. CASE CurTime
        BY <1>3, <4>1, WordsAre DEF Moved, CurTime, Stores, At, TimeWords, BothHalves, env, prog
      <4>2. CASE UpdateStat /\ ~CurTime
        BY <1>3, <4>2 DEF Moved, UpdateStat, CloseDown, EndsBy, At, env, prog, data,
             CountAlarm,
           IdleLongEnough, signal, ReadHz, Reads, Stores, ReadCpTime, Avenrun, ReadBootTime,
           ReadSum, ReadDkXfer, Zeroed, ReadIfnet, MoreIfnets
      <4> QED BY <3>2, <4>1, <4>2
    <3>3. CASE Program
      BY <1>3, <3>3 DEF Moved, Program, Receive, On, data, local, signal, Dispatch,
           Answer, env,
         Setup, NamelistFails, Checked, CountIfnet, prog, Counted, FirstUpdate,
         AlarmAgain, Rearmed, Catch, Wake, NlistClears, NlistFinds, Nlist, SymbolMissing, EndsBy, Open, Seek, ReadXfer,
         OpenFails
    <3> QED
      BY <3>1, <3>2, <3>3 DEF Next
  <2>2. BodyRight(req, reply.body)'
    BY <2>1, BodyKept DEF Moved, ServerInv, Encoded, BodyRight, FirstN, NeverFilled,
         Layout, Common
  <2>3. ASSUME NEW k \in 1 .. Len(reply.body)
        PROVE  /\ reply.body[k].at <= now'
               /\ up' = "out" => reply.body[k].at <= stats_all'["word23"].at
    <3>1. reply.body[k].at \in Int
      <4>1. reply.body \in Seq(ValueSet) BY DEF ServerInv, Shapes, ReplySet
      <4>2. reply.body[k] \in ValueSet BY <4>1
      <4> QED BY <4>2 DEF ValueSet
    <3>2. reply.body[k].at <= now /\ (up = "out" => reply.body[k].at <= stats_all["word23"].at)
      BY <2>1 DEF Moved, ServerInv, Encoded
    <3> QED
      BY <2>1, <3>1, <3>2, SMTT(30) DEF Moved, Value, ServerInv, TypeOK
  <2> QED
    BY <2>1, <2>2, <2>3 DEF Moved
<1> QED BY <1>1, <1>2, <1>3

\* Sent is kept: a reply is sent when its body has all the words of its layout.
LEMMA SentKeeps == ServerInv /\ Next => Sent'
<1> SUFFICES ASSUME ServerInv, Next PROVE Sent'
  OBVIOUS
<1>1. CASE Restart
  BY <1>1 DEF Restart, Sent, NoReply, Stats
<1>2. CASE Dispatch
  <2>1. CASE req = "null"
    <3>1. sent'.proc = "null"
      BY <1>2, <2>1, NoReplyProc DEF Dispatch, Answer
    <3> QED
      BY <3>1 DEF Sent, Stats
  <2>2. CASE req # "null"
    <3>1. UNCHANGED <<sent, numintfs>> /\ stat_is_init'
          /\ main' = (IF stat_is_init THEN "reset" ELSE "setup")
      BY <1>2, <2>2 DEF Dispatch, data
    <3>2. CASE sent.proc \in Stats
      <4>1. BodyRight(sent.proc, sent.body)'
        BY <3>1, <3>2, BodyKept DEF ServerInv, Sent, BodyRight, FirstN, NeverFilled,
             Layout, Common
      <4> QED
        BY <3>1, <3>2, <4>1 DEF ServerInv, Sent, Layout, Common
    <3> QED
      BY <3>1, <3>2 DEF Sent
  <2> QED BY <2>1, <2>2
<1>3. CASE ReadXfer
  <2>1. sent'.proc = "havedisk"
    BY <1>3 DEF ReadXfer, Answer, On, ServerInv, Requests, Shapes, ReplySet
  <2> QED
    BY <2>1 DEF Sent, Stats
<1>4. CASE Encode
  <2>1. CASE Len(reply.body) = Len(Layout[req])
    <3>1. sent' = reply /\ main' = "svc" /\ UNCHANGED <<stat_is_init, numintfs>>
      BY <1>4, <2>1 DEF Encode, Answer, data
    <3>2. reply.proc = req /\ stat_is_init /\ BodyRight(req, reply.body)
      BY <1>4 DEF Encode, On, ServerInv, Requests, Encoded
    <3>3. BodyRight(reply.proc, reply.body) /\ Len(reply.body) = Len(Layout[reply.proc])
      BY <3>2, <2>1
    <3> HIDE DEF BodyRight
    <3>4. BodyRight(sent'.proc, sent'.body)
      BY <3>1, <3>3
    <3>5. BodyRight(sent.proc, sent.body)'
      BY <3>1, <3>4 DEF BodyRight, FirstN, NeverFilled, Layout, Common
    <3> QED
      BY <3>1, <3>2, <3>3, <3>5 DEF Sent, Layout, Common
  <2>2. CASE Len(reply.body) # Len(Layout[req])
    <3>1. UNCHANGED <<sent, main, stat_is_init, numintfs>>
      BY <1>4, <2>2 DEF Encode, data
    <3> QED
      BY <3>1 DEF ServerInv, Sent, BodyRight, FirstN, NeverFilled, Layout, Common
  <2> QED BY <2>1, <2>2
<1>5. CASE ~(Restart \/ Dispatch \/ ReadXfer \/ Encode)
  <2> DEFINE Held == /\ sent' = sent
                     /\ sent.proc \in Stats =>
                          /\ numintfs' = numintfs /\ stat_is_init'
                          /\ main' \notin {"setup", "count"}
  <2>1. ASSUME Environment PROVE Held
    BY <1>5, <2>1 DEF Sent, ServerInv, Calls, Requests, Environment, Tick, prog, data,
         local, signal, IfAttach, Arrive,
         Ring, env, Deliver, EndsBy, ReadFails, On
  <2>2. ASSUME UpdateStat PROVE Held
    BY <1>5, <2>2 DEF Sent, ServerInv, Calls, Requests, UpdateStat, CloseDown, EndsBy,
         At, env, prog, data, CountAlarm,
         IdleLongEnough, signal, ReadHz, Reads, Stores, ReadCpTime, Avenrun, ReadBootTime,
         ReadSum, ReadDkXfer, Zeroed, ReadIfnet, MoreIfnets, CurTime, TimeWords, BothHalves, Rearmed
  <2>3. ASSUME Program PROVE Held
    BY <1>5, <2>3 DEF Sent, ServerInv, Calls, Requests, Program, Receive, On, data,
         local, signal, Setup, NamelistFails,
         Checked, env, CountIfnet, prog, Counted, FirstUpdate, AlarmAgain, Rearmed, Catch,
         Wake, Reset, NlistClears, NlistFinds, Nlist, SymbolMissing, EndsBy, Open, Seek, OpenFails
  <2>4. Held
    BY <2>1, <2>2, <2>3 DEF Next
  <2> QED
    BY <2>4 DEF ServerInv, Sent, BodyRight, FirstN, NeverFilled, Layout, Common
<1> QED BY <1>1, <1>2, <1>3, <1>4, <1>5

\* What Sent says of the properties of replies.
LEMMA SentRight == ServerInv => AnswersAfterUpdate /\ InterfacesOnce /\ CurtimeNotBefore
<1> SUFFICES ASSUME ServerInv PROVE AnswersAfterUpdate /\ InterfacesOnce /\ CurtimeNotBefore
  OBVIOUS
<1>1. AnswersAfterUpdate
  BY DEF ServerInv, Sent, BodyRight, NeverFilled, AnswersAfterUpdate
<1>2. InterfacesOnce
  <2> SUFFICES ASSUME sent.proc \in Stats PROVE sent.body[4].ifs = FirstN(numintfs)
    BY DEF InterfacesOnce, FirstN
  <2>1. BodyRight(sent.proc, sent.body) /\ 4 \in 1 .. Len(sent.body)
    BY LayoutRight DEF ServerInv, Sent
  <2> QED
    BY <2>1 DEF BodyRight
<1>3. CurtimeNotBefore
  <2> SUFFICES ASSUME sent.proc = "stats_3"
               PROVE  /\ \A k \in 1 .. 8 : sent.body[k].at <= sent.body[8].at
                      /\ sent.body[8].at <= sent.body[9].at
    BY DEF CurtimeNotBefore
  <2>1. Len(sent.body) = 10 /\ BodyRight("stats_3", sent.body)
    BY LayoutRight3 DEF ServerInv, Sent, Stats
  <2> QED
    BY <2>1 DEF BodyRight
<1> QED BY <1>1, <1>2, <1>3

(***************************************************************************)
(* The invariant and the theorems.                                         *)
(***************************************************************************)
\* ServerInv holds of a fresh process.
LEMMA ServerInit == Init => ServerInv
<1> SUFFICES ASSUME Init PROVE ServerInv
  OBVIOUS
<1>1. Ranges
  BY RangesInit
<1>2. Shapes
  BY ZeroShape, EmptyShape DEF Init, Shapes
<1>3. TypeOK
  BY <1>1, <1>2, TypeParts
<1>4. Requests /\ Calls /\ Counting
  BY DEF Init, Requests, Calls, Counting
<1>5. Walking /\ Walked /\ Filled
  BY DEF Init, Walking, Walked, Filled, Updated
<1>6. Times
  BY WordsAre DEF Init, Times, Zero
<1>7. Encoded /\ Sent
  BY DEF Init, Encoded, Sent, NoReply, Stats
<1> QED
  BY <1>2, <1>3, <1>4, <1>5, <1>6, <1>7 DEF ServerInv

\* ServerInv is kept by a step that changes nothing.
LEMMA ServerStutters == ServerInv /\ UNCHANGED vars => ServerInv'
<1> SUFFICES ASSUME ServerInv, UNCHANGED vars PROVE ServerInv'
  OBVIOUS
<1> USE DEF vars, env, prog, data, local, signal, ServerInv
<1>1. TypeOK' BY DEF TypeOK, Places, Words, Layout, Common
<1>2. Shapes' BY DEF Shapes, ReplySet, ValueSet, Origins, Places, Words, Layout, Common
<1>3. Requests' BY DEF Requests, Layout, Common
<1>4. Calls' /\ Counting' BY DEF Calls, Counting
<1>5. Walking' /\ Walked' /\ Filled'
  BY DEF Walking, Walked, Filled, Filling, Updated, FirstN
<1>6. Times' BY DEF Times, Words, Layout, Common
<1>7. Encoded' BY DEF Encoded, BodyRight, FirstN, NeverFilled, Layout, Common
<1>8. Sent' BY DEF Sent, BodyRight, FirstN, NeverFilled, Layout, Common
<1> QED
  BY <1>1, <1>2, <1>3, <1>4, <1>5, <1>6, <1>7, <1>8

\* ServerInv is an invariant of the server.
LEMMA ServerAlways == Spec => []ServerInv
<1>1. Init => ServerInv
  BY ServerInit
<1>2. ServerInv /\ [Next]_vars => ServerInv'
  <2>1. ServerInv /\ Next => ServerInv'
    <3>1. (Ranges /\ Shapes => TypeOK)'
      BY TypeParts, PTL
    <3> QED
      BY <3>1, ShapesKeeps, RangesKeeps, RequestsKeeps, CallsKeeps, CountingKeeps,
         WalkingKeeps, WalkedKeeps, FilledKeeps, TimesKeeps, EncodedKeeps, SentKeeps
      DEF ServerInv
  <2> QED
    BY <2>1, ServerStutters
<1> QED
  BY <1>1, <1>2, PTL DEF Spec

\* Every variable keeps its type, whatever is interrupted where; the counts of
\* interfaces and of descriptors keep their bounds (lines 228-248, 270 and 308).
THEOREM TypeAlwaysOK == Spec => []TypeOK
BY ServerAlways, PTL DEF ServerInv

\* No reply holds a word that updatestat() has not filled, though stat_is_init is
\* set before it runs (lines 73-88).
THEOREM AlwaysAnswersAfterUpdate == Spec => []AnswersAfterUpdate
BY ServerAlways, SentRight, PTL

\* A reply adds up each interface that setup() counted exactly once, for any number
\* of interfaces (lines 228-248).
THEOREM InterfacesAlwaysOnce == Spec => []InterfacesOnce
BY ServerAlways, SentRight, PTL

\* The time in a version 3 reply is never before a statistic in it (lines 249-250),
\* though an alarm between its two words may give it the microseconds of a later
\* time than its seconds.
THEOREM CurtimeNeverBefore == Spec => []CurtimeNotBefore
BY ServerAlways, SentRight, PTL
=============================================================================
