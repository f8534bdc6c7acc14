--------------------------- MODULE RecorderProofs ---------------------------
(***************************************************************************)
(* Proofs about the recorder: its type invariant, that the files of an     *)
(* undisturbed recording hold the stream without a gap (Seamless), that    *)
(* one that goes on has written all it read (Complete), and that nothing   *)
(* is left open between recordings (Released).                             *)
(***************************************************************************)
EXTENDS Recorder, TLAPS

\* Where only one kind of task gets to.
FilePlaces == {"write", "after", "ring", "open", "rest", "fail", "closing", "idle"}
NetPlaces  == {"listen", "top", "accept", "send", "pause"}

\* The order of the recordings: tasks exist for those that were started, and a
\* call that finds a task alive disturbs it and every later recording.
Order ==
  /\ \A t \in Recs : t > rec => pc[t] = "none"
  /\ ui = "service" => rec < MaxRecs
  /\ ui \in {"reset", "create"} =>
       rec \in Recs /\ pc[rec] = "none" /\ (kind[rec] = "file" => fp = NULL \/ fp[1] >= rec)
  /\ ui = "running" \/ status = "run" => rec \in Recs
  /\ \A t \in Recs : Alive(t) =>
       /\ t < rec => t \in disturbed
       /\ \A r \in Recs : t < r /\ r <= rec => r \in disturbed
  /\ \A t \in Recs : Alive(t) /\ kind[t] = "file" => fp = NULL \/ fp[1] >= t
  /\ fp[1] <= rec
  /\ \A t \in Recs : /\ pc[t] \in FilePlaces => kind[t] = "file"
                     /\ pc[t] \in NetPlaces => kind[t] = "net"
  /\ \A h \in Files : h[1] > rec => Empty(h) /\ pos[h] = 0

\* The file being written, at offset c, with the stream up to unit u.
At(c, u) == fp = <<rec, no>> /\ fp \in Files /\ pos[fp] = c /\ Reached(u)

\* No file follows the one being written, and only the first is ever a ring.
Tail ==
  /\ \A f \in 0 .. LastFile : f > no => Empty(<<rec, f>>)
  /\ mode = "timeshift" => no = 0
  /\ no > 0 /\ <<rec, no>> \in Files /\ ~Empty(<<rec, no>>) => pos[<<rec, no>>] > 0

\* What the task of the last recording holds, if nothing disturbed it.
Going == cnt \in 0 .. MaxSize - 1 /\ At(cnt, next)

Held == LET t == rec IN
  /\ Tail
  /\ pc[t] \in {"closing", "idle"} => stopped
  /\ pc[t] = "wait" => stopped \/ Going
  /\ pc[t] \in {"poll", "read"} => Going
  /\ pc[t] = "write" =>
       len[t] >= 1 /\ cnt \in 0 .. MaxSize - 1 /\ At(cnt, next - len[t])
  /\ pc[t] = "after" =>
       /\ cnt \in 0 .. MaxSize /\ At(cnt, next - len[t] + wr[t])
       /\ wr[t] \in 1 .. len[t] /\ (cnt < MaxSize => wr[t] = len[t])
  /\ pc[t] = "ring" =>
       /\ cnt = MaxSize /\ At(0, next - len[t] + wr[t]) /\ Whole(fp)
       /\ wr[t] \in 1 .. len[t] - 1
  /\ pc[t] = "open" =>
       /\ cnt = 0 /\ no \in 1 .. LastFile /\ Reached(next - len[t] + wr[t])
       /\ Empty(<<rec, no>>) /\ wr[t] \in 1 .. len[t]
  /\ pc[t] = "rest" =>
       /\ cnt = 0 /\ At(0, next - len[t] + wr[t]) /\ Empty(fp)
       /\ wr[t] \in 1 .. len[t] - 1

\* The object between the start of the last recording and its task.
Fresh ==
  /\ ui \in {"reset", "create"} =>
       fp = <<rec, 0>> /\ \A f \in 0 .. LastFile : Empty(<<rec, f>>) /\ pos[<<rec, f>>] = 0
  /\ ui = "create" => cnt = 0 /\ no = 0 /\ ~stopped

Progress ==
  rec \in Recs /\ rec \notin disturbed /\ kind[rec] = "file" /\ ~crash =>
    Fresh /\ (Alive(rec) => Held)

IInv == TypeOK /\ Order /\ Seamless /\ Progress

-----------------------------------------------------------------------------
LEMMA PutValues ==
  ASSUME NEW d, NEW p \in Nat, NEW u \in Int, NEW n \in Nat, DOMAIN d \subseteq Int
  PROVE  /\ DOMAIN Put(d, p, u, n) = DOMAIN d \cup p .. p + n - 1
         /\ \A o \in p .. p + n - 1 : Put(d, p, u, n)[o] = u + (o - p)
         /\ \A o \in DOMAIN d \ (p .. p + n - 1) : Put(d, p, u, n)[o] = d[o]
BY DEF Put

\* Writing on where the stream is keeps the order within the file.
LEMMA PutKeeps ==
  ASSUME NEW d, NEW p \in Nat, NEW u \in Int, NEW n \in Nat,
         Fits(d, p), Follows(d, p), p + n <= MaxSize,
         \A o \in DOMAIN d : d[o] \in Int,
         p > 0 => d[p - 1] = u - 1,
         p = 0 /\ DOMAIN d # {} => d[MaxSize - 1] = u - 1
  PROVE  /\ Fits(Put(d, p, u, n), p + n)
         /\ Follows(Put(d, p, u, n), p + n)
<1> DEFINE e == Put(d, p, u, n)
<1>0. MaxSize \in Nat \ {0}
  BY RecorderAssumption
<1>1. /\ DOMAIN e = DOMAIN d \cup p .. p + n - 1
      /\ \A o \in p .. p + n - 1 : e[o] = u + (o - p)
      /\ \A o \in DOMAIN d \ (p .. p + n - 1) : e[o] = d[o]
  BY DEF Put, Fits
<1>2. DOMAIN d \subseteq 0 .. MaxSize - 1 /\ 0 .. p - 1 \subseteq DOMAIN d
  BY DEF Fits
<1>3. CASE n = 0
  <2>1. DOMAIN e = DOMAIN d /\ \A o \in DOMAIN d : e[o] = d[o]
    BY <1>1, <1>3
  <2>2. Fits(e, p)
    BY <2>1 DEF Fits
  <2>3. p \in DOMAIN d \ {0} => 0 \in DOMAIN d /\ MaxSize - 1 \in DOMAIN d
    BY <1>0 DEF Fits
  <2>4. Follows(e, p)
    BY <2>1, <2>3 DEF Follows
  <2> QED BY <2>2, <2>4, <1>3
<1>4. CASE n > 0
  <2>1. Fits(e, p + n)
    <3>1. DOMAIN e \subseteq 0 .. MaxSize - 1
      BY <1>0, <1>1, <1>2
    <3>2. ASSUME NEW o \in DOMAIN e PROVE 0 .. o \subseteq DOMAIN e
      BY <1>0, <1>1, <1>2 DEF Fits
    <3>3. 0 .. (p + n) - 1 \subseteq DOMAIN e
      BY <1>1, <1>2
    <3>4. p + n \in DOMAIN e => DOMAIN e = 0 .. MaxSize - 1
      <4>1. SUFFICES ASSUME p + n \in DOMAIN e PROVE DOMAIN e = 0 .. MaxSize - 1
        OBVIOUS
      <4>2. p + n \in DOMAIN d
        BY <4>1, <1>1
      <4>3. p \in DOMAIN d
        BY <4>2, <1>4, <1>2 DEF Fits
      <4> QED BY <4>3, <1>1, <1>0, <3>1 DEF Fits
    <3> HIDE DEF e
    <3> QED BY <3>1, <3>2, <3>3, <3>4 DEF Fits
  <2>2. ASSUME NEW o \in DOMAIN e, o + 1 \in DOMAIN e, o + 1 # p + n
        PROVE  e[o + 1] = e[o] + 1
    <3>0. o \in 0 .. MaxSize - 1
      BY <1>0, <1>1, <1>2
    <3>1. CASE o + 1 < p
      <4>1. o \in DOMAIN d /\ o + 1 \in DOMAIN d /\ o + 1 # p
        BY <3>0, <3>1, <1>2
      <4>2. e[o] = d[o] /\ e[o + 1] = d[o + 1]
        BY <4>1, <3>1, <1>1, <3>0
      <4> QED BY <4>1, <4>2 DEF Follows
    <3>2. CASE o + 1 = p
      <4>1. o \in DOMAIN d /\ o = p - 1 /\ p > 0
        BY <3>0, <3>2, <1>2
      <4>2. e[o] = d[p - 1]
        BY <4>1, <1>1
      <4>3. e[o + 1] = u
        BY <3>2, <1>1, <1>4
      <4> QED BY <4>1, <4>2, <4>3
    <3>3. CASE o >= p /\ o + 1 < p + n
      <4>1. e[o] = u + (o - p) /\ e[o + 1] = u + (o + 1 - p)
        BY <3>0, <3>3, <1>1
      <4> QED BY <4>1, <3>0
    <3>4. CASE o >= p + n
      <4>1. o \in DOMAIN d /\ o + 1 \in DOMAIN d /\ o + 1 # p
        BY <2>2, <3>0, <3>4, <1>1
      <4>2. e[o] = d[o] /\ e[o + 1] = d[o + 1]
        BY <4>1, <3>4, <1>1, <3>0
      <4> QED BY <4>1, <4>2 DEF Follows
    <3> QED BY <2>2, <3>0, <3>1, <3>2, <3>3, <3>4
  <2>3. p + n \in DOMAIN e \ {0} => e[0] = e[MaxSize - 1] + 1
    <3>1. SUFFICES ASSUME p + n \in DOMAIN e PROVE e[0] = e[MaxSize - 1] + 1
      OBVIOUS
    <3>2. p + n \in DOMAIN d
      BY <3>1, <1>1
    <3>3. p \in DOMAIN d
      BY <3>2, <1>4, <1>2 DEF Fits
    <3>4. DOMAIN d = 0 .. MaxSize - 1
      BY <3>3 DEF Fits
    <3>5. e[MaxSize - 1] = d[MaxSize - 1] /\ d[MaxSize - 1] \in Int
      BY <3>2, <3>4, <1>1, <1>0
    <3>6. CASE p = 0
      <4>1. e[0] = u
        BY <3>6, <1>1, <1>4
      <4>2. d[MaxSize - 1] = u - 1
        BY <3>6, <3>3
      <4> QED BY <4>1, <4>2, <3>5
    <3>7. CASE p > 0
      <4>1. e[0] = d[0]
        BY <3>7, <3>4, <1>1, <1>0
      <4> QED BY <4>1, <3>3, <3>5, <3>7 DEF Follows
    <3> QED BY <3>6, <3>7
  <2>4. Follows(e, p + n)
    <3> HIDE DEF e
    <3> QED BY <2>2, <2>3 DEF Follows
  <2> QED BY <2>1, <2>4
<1> QED BY <1>3, <1>4

-----------------------------------------------------------------------------
(* Type correctness and the order of the recordings. *)

LEMMA InitInv == Init => IInv
<1> SUFFICES ASSUME Init PROVE IInv
  OBVIOUS
<1> USE RecorderAssumption
<1>1. TypeOK
  <2>1. /\ data = [h \in Files |-> data[h]]
        /\ \A h \in Files : \A o \in DOMAIN data[h] : o \in Nat /\ data[h][o] \in Int
        /\ pos \in [Files -> Nat]
    BY DEF Init
  <2>2. /\ pc \in [Recs -> Places] /\ kind \in [Recs -> {"file", "net"}]
        /\ len \in [Recs -> 0 .. MaxLen] /\ wr \in [Recs -> Nat]
    BY DEF Init, Places
  <2>3. /\ stopped \in BOOLEAN /\ secft \in BOOLEAN /\ lock \in BOOLEAN
        /\ filter \in BOOLEAN /\ crash \in BOOLEAN
    BY Zenon DEF Init
  <2>4. /\ status = "idle" /\ fp = NULL /\ cnt = 0 /\ no = 0 /\ next = 0 /\ rec = 0
        /\ mode \in {"normal", "timeshift"} /\ cancel = {} /\ ui = "menu"
        /\ opened = {} /\ disturbed = {}
    BY Zenon DEF Init
  <2> QED BY <2>1, <2>2, <2>3, <2>4 DEF TypeOK
<1>2. Order
  BY DEF Init, Order, Files, NULL, Recs, Alive, FilePlaces, NetPlaces, Empty
<1>3. Seamless
  BY DEF Init, Seamless, Fits, Follows, Joined, Empty, Files, Recs
<1>4. Progress
  BY DEF Init, Progress, Recs
<1> QED BY <1>1, <1>2, <1>3, <1>4 DEF IInv

LEMMA FopenType ==
  ASSUME TypeOK, NEW h \in Files, Fopen(h)
  PROVE  /\ fp' \in Files /\ opened' \subseteq Files
         /\ data' = [g \in Files |-> data'[g]]
         /\ \A g \in Files : \A o \in DOMAIN data'[g] : o \in Nat /\ data'[g][o] \in Int
         /\ pos' \in [Files -> Nat]
<1>1. \A g \in Files : data'[g] = IF g = h THEN [o \in {} |-> 0] ELSE data[g]
  BY DEF Fopen, TypeOK
<1>2. data' = [g \in Files |-> data'[g]]
  BY DEF Fopen, TypeOK
<1>3. \A g \in Files : \A o \in DOMAIN data'[g] : o \in Nat /\ data'[g][o] \in Int
  BY <1>1 DEF TypeOK
<1> QED BY <1>2, <1>3 DEF Fopen, TypeOK

\* What a write changes.
LEMMA OutputType ==
  ASSUME TypeOK, NEW t \in Recs, NEW u \in Int, NEW want \in Int, NEW c \in Int,
         NEW ok \in {"after", "read"}, Output(t, u, want, ok, c), want <= MaxSize
  PROVE  TypeOK'
<1> USE RecorderAssumption
<1>1. CASE fp \notin opened \/ want < 0
  BY <1>1 DEF TypeOK, Output, disk, call
<1>2. CASE fp \in opened /\ want >= 0
  <2>1. PICK n \in 0 .. want :
          /\ Fwrite(Unit(t, u), n)
          /\ IF n = want THEN GotoWith(t, ok, IF ok = "after" THEN n ELSE 0) /\ cnt' = c
                         ELSE GotoWith(t, "fail", 0) /\ cnt' = cnt + n
          /\ UNCHANGED crash
    BY <1>2 DEF Output
  <2>2. fp \in Files
    BY <1>2 DEF TypeOK
  <2>3. Unit(t, u) \in Int
    BY DEF Unit, TypeOK
  <2>4. /\ data' = [h \in Files |-> data'[h]]
        /\ \A h \in Files : \A o \in DOMAIN data'[h] : o \in Nat /\ data'[h][o] \in Int
    BY <2>1, <2>2, <2>3 DEF TypeOK, Fwrite, Put
  <2>5. pos' \in [Files -> Nat]
    BY <2>1, <2>2 DEF TypeOK, Fwrite
  <2>6. pc' \in [Recs -> Places] /\ wr' \in [Recs -> Nat] /\ cnt' \in Int
    BY <2>1 DEF TypeOK, GotoWith, Goto, Places
  <2>7. /\ UNCHANGED <<status, stopped, fp, no, secft, mode, len, cancel, filter, next>>
        /\ UNCHANGED <<ui, lock, rec, kind, disturbed, opened, crash>>
    BY <1>2, <2>1 DEF Output, Fwrite, call
  <2> QED BY <2>4, <2>5, <2>6, <2>7 DEF TypeOK
<1> QED BY <1>1, <1>2 DEF TypeOK

LEMMA TaskType ==
  ASSUME TypeOK, Order, NEW t \in Recs, TaskStep(t)
  PROVE  TypeOK'
<1> USE RecorderAssumption DEF TypeOK
<1>0. \A i \in Recs : len[i] \in Nat /\ wr[i] \in Nat /\ cnt \in Int
  OBVIOUS
<1>1. CASE Head(t)
  BY <1>1 DEF Head, Goto, Places, object, call, disk
<1>2. CASE Poll(t)
  BY <1>2 DEF Poll, Goto, Places, object, call, disk
<1>3. CASE Read(t)
  BY <1>3 DEF Read, Goto, Places, object, call, disk
<1>4. CASE Write(t)
  <2>1. Towrite(t) \in Int /\ Towrite(t) <= MaxSize
    BY <1>0 DEF Towrite
  <2>2. cnt + Towrite(t) \in Int
    BY <2>1, <1>0
  <2>3. Output(t, 0, Towrite(t), "after", cnt + Towrite(t))
    BY <1>4 DEF Write
  <2> HIDE DEF TypeOK
  <2> QED BY <2>1, <2>2, <2>3, OutputType
<1>5. CASE Continue(t)
  BY <1>5 DEF Continue, Goto, GotoWith, Places, object, call, disk
<1>6. CASE Rewind(t)
  BY <1>6 DEF Rewind, Goto, GotoWith, Places, call
<1>7. CASE WriteRing(t)
  <2>1. Rest(t) \in Int /\ Rest(t) <= MaxSize
    BY <1>0 DEF Rest
  <2> QED BY <1>7, <2>1, <1>0, OutputType DEF WriteRing
<1>8. CASE Roll(t)
  BY <1>8 DEF Roll, Fclose, Goto, GotoWith, Places, call
<1>9. CASE OpenNext(t)
  <2>1. CASE fp' = NULL /\ UNCHANGED disk
    BY <1>9, <2>1 DEF OpenNext, Goto, GotoWith, Places, call, disk
  <2>2. CASE <<rec, no>> \in Files /\ Fopen(<<rec, no>>)
    <3>1. /\ fp' \in Files /\ opened' \subseteq Files
          /\ data' = [g \in Files |-> data'[g]]
          /\ \A g \in Files : \A o \in DOMAIN data'[g] : o \in Nat /\ data'[g][o] \in Int
          /\ pos' \in [Files -> Nat]
      BY <2>2, FopenType
    <3>2. pc' \in [Recs -> Places] /\ wr' \in [Recs -> Nat]
      BY <1>9 DEF OpenNext, Goto, GotoWith, Places
    <3> QED BY <1>9, <3>1, <3>2 DEF OpenNext, call
  <2> QED BY <1>9, <2>1, <2>2 DEF OpenNext
<1>10. CASE WriteRest(t)
  <2>1. Rest(t) \in Int /\ Rest(t) <= MaxSize
    BY <1>0 DEF Rest
  <2> QED BY <1>10, <2>1, <1>0, OutputType DEF WriteRest
<1>11. CASE Fail(t)
  BY <1>11 DEF Fail, Fclose, Goto, Places, call
<1>12. CASE CloseFilters(t)
  BY <1>12 DEF CloseFilters, Goto, Places, object, call, disk
<1>13. CASE BecomeIdle(t)
  BY <1>13 DEF BecomeIdle, Goto, Places, call, disk
<1>14. CASE Die(t)
  BY <1>14 DEF Die, Goto, GotoWith, Places, object, call, disk
<1>15. CASE Listen(t) \/ Accept(t)
  BY <1>15 DEF Listen, Accept, Goto, Places, object, call, disk
<1>16. CASE Top(t)
  BY <1>16 DEF Top, Goto, Places, call, disk
<1>17. CASE Send(t)
  <2>1. stopped' \in BOOLEAN
    BY <1>17 DEF Send
  <2> QED BY <1>17, <2>1 DEF Send, Goto, Places, call, disk
<1> QED BY <1>1, <1>2, <1>3, <1>4, <1>5, <1>6, <1>7, <1>8, <1>9, <1>10, <1>11, <1>12,
           <1>13, <1>14, <1>15, <1>16, <1>17 DEF TaskStep

LEMMA CallType ==
  ASSUME TypeOK, Order,
         CallStep \/ (\E k \in {"file", "net"} : Begin(k)) \/ Halt
           \/ (\E m \in {"normal", "timeshift"} : SetMode(m))
  PROVE  TypeOK'
<1> USE RecorderAssumption DEF TypeOK
<1>1. CASE \E k \in {"file", "net"} : Begin(k)
  BY <1>1 DEF Begin, Lock, Recs, object, task, disk
<1>2. CASE NoService
  BY <1>2 DEF NoService, object, task, disk
<1>3. CASE Prepare
  <2>1. rec \in Nat /\ rec < MaxRecs /\ rec + 1 \in Recs /\ <<rec + 1, 0>> \in Files
    BY <1>3 DEF Prepare, Order, Recs, Files
  <2>2. disturbed' \subseteq Recs
    BY <1>3 DEF Prepare, Interferes
  <2>3. CASE UNCHANGED disk
    <3>1. fp' \in Files \cup {NULL} /\ rec' \in 0 .. MaxRecs
      BY <1>3, <2>1, <2>3 DEF Prepare, Fopen, disk
    <3> QED BY <1>3, <2>2, <2>3, <3>1 DEF Prepare, task, disk
  <2>4. CASE Fopen(<<rec + 1, 0>>) /\ rec' = rec + 1
    <3>1. /\ fp' \in Files /\ opened' \subseteq Files
          /\ data' = [g \in Files |-> data'[g]]
          /\ \A g \in Files : \A o \in DOMAIN data'[g] : o \in Nat /\ data'[g][o] \in Int
          /\ pos' \in [Files -> Nat]
      BY <2>1, <2>4, FopenType
    <3>2. ui' \in {"menu", "reset"} /\ secft' \in BOOLEAN /\ filter' \in BOOLEAN
      BY <1>3 DEF Prepare
    <3> QED BY <1>3, <2>1, <2>2, <2>4, <3>1, <3>2 DEF Prepare, task
  <2> QED BY <1>3, <2>3, <2>4 DEF Prepare, disk
<1>4. CASE Reset
  <2>1. stopped' \in BOOLEAN
    BY <1>4, Zenon DEF Reset
  <2> QED BY <1>4, <2>1 DEF Reset, task, disk
<1>10. CASE Running
  BY <1>10 DEF Running, task, disk
<1>5. CASE Create
  BY <1>5 DEF Create, Goto, Places, Order, object, disk
<1>6. CASE Halt
  BY <1>6 DEF Halt, Lock, Order, disk
<1>7. CASE Close
  BY <1>7 DEF Close, Fclose, object, task
<1>8. CASE Filters \/ Idled
  BY <1>8 DEF Filters, Idled, object, task, disk
<1>9. CASE \E m \in {"normal", "timeshift"} : SetMode(m)
  BY <1>9 DEF SetMode, Interferes, object, task, disk
<1> QED BY <1>1, <1>2, <1>3, <1>4, <1>5, <1>6, <1>7, <1>8, <1>9, <1>10 DEF CallStep

\* What a step of a task may do to the order of the recordings.
LEMMA StepOrder ==
  ASSUME TypeOK, Order, NEW t \in Recs, Alive(t), UNCHANGED call, NEW w \in Places,
         pc' = [pc EXCEPT ![t] = w],
         w \in FilePlaces => kind[t] = "file", w \in NetPlaces => kind[t] = "net",
         fp' \in {fp, NULL, <<rec, no>>}, status' \in {status, "idle"},
         \A h \in Files : h[1] > rec => data'[h] = data[h] /\ pos'[h] = pos[h]
  PROVE  Order'
<1> USE DEF call
<1>0. rec \in Nat /\ t <= rec /\ pc \in [Recs -> Places]
  BY DEF TypeOK, Order, Alive, Recs
<1>1. \A r \in Recs : r # t => pc'[r] = pc[r]
  BY <1>0
<1>2. pc'[t] = w
  BY <1>0
<1>3. \A r \in Recs : Alive(r)' => Alive(r)
  BY <1>1 DEF Alive
<1>4. \A r \in Recs : r > rec' => pc'[r] = "none"
  BY <1>0, <1>1 DEF Order, Recs
<1>5. ui' \in {"reset", "create"} =>
        /\ rec' \in Recs /\ pc'[rec'] = "none"
        /\ kind'[rec'] = "file" => fp' = NULL \/ fp'[1] >= rec'
  BY <1>0, <1>1 DEF Order, Alive
<1>6. /\ ui' = "service" => rec' < MaxRecs
      /\ ui' = "running" \/ status' = "run" => rec' \in Recs
  BY DEF Order
<1>7. \A r \in Recs : Alive(r)' =>
        /\ r < rec' => r \in disturbed'
        /\ \A q \in Recs : r < q /\ q <= rec' => q \in disturbed'
  BY <1>3 DEF Order
<1>8. /\ \A r \in Recs : Alive(r)' /\ kind'[r] = "file" => fp' = NULL \/ fp'[1] >= r
      /\ fp'[1] <= rec'
  <2>1. \A r \in Recs : Alive(r) => r <= rec
    BY <1>0 DEF Order, Alive, Recs
  <2>2. CASE fp' = fp
    BY <2>2, <1>3 DEF Order
  <2>3. CASE fp' = NULL
    BY <2>3, <1>0 DEF NULL
  <2>4. CASE fp' = <<rec, no>>
    BY <2>4, <2>1, <1>3, <1>0 DEF Recs
  <2> QED BY <2>2, <2>3, <2>4
<1>9. \A r \in Recs : /\ pc'[r] \in FilePlaces => kind'[r] = "file"
                      /\ pc'[r] \in NetPlaces => kind'[r] = "net"
  BY <1>1, <1>2 DEF Order
<1>10. \A h \in Files : h[1] > rec' => Empty(h)' /\ pos'[h] = 0
  BY DEF Order, Empty
<1> QED BY <1>4, <1>5, <1>6, <1>7, <1>8, <1>9, <1>10 DEF Order

LEMMA OutputOrder ==
  ASSUME TypeOK, Order, NEW t \in Recs, NEW u, NEW want, NEW c,
         NEW ok \in {"after", "read"}, pc[t] \in FilePlaces, Output(t, u, want, ok, c)
  PROVE  Order'
<1>0. Alive(t) /\ kind[t] = "file"
  BY DEF Order, Alive, FilePlaces
<1>1. CASE fp \notin opened \/ want < 0
  <2>1. pc' = [pc EXCEPT ![t] = pc[t]] /\ pc[t] \in Places
    BY <1>1 DEF Output, TypeOK
  <2>2. UNCHANGED <<call, fp, status, data, pos>>
    BY <1>1 DEF Output, disk
  <2> QED BY <1>0, <2>1, <2>2, StepOrder DEF Order
<1>2. CASE ~(fp \notin opened \/ want < 0)
  <2>1. PICK n \in 0 .. want :
          /\ Fwrite(Unit(t, u), n)
          /\ Goto(t, IF n = want THEN ok ELSE "fail")
    BY <1>2 DEF Output, GotoWith
  <2>2. UNCHANGED <<call, fp, status>>
    BY DEF Output
  <2>3. \A h \in Files : h[1] > rec => data'[h] = data[h] /\ pos'[h] = pos[h]
    <3>1. \A h \in Files : h[1] > rec => h # fp
      BY DEF Order, TypeOK, Files, Recs
    <3> QED BY <2>1, <3>1 DEF Fwrite, TypeOK
  <2>4. PICK w \in {"after", "read", "fail"} : pc' = [pc EXCEPT ![t] = w]
    BY <2>1 DEF Goto
  <2> QED BY <1>0, <2>2, <2>3, <2>4, StepOrder DEF Places, FilePlaces, NetPlaces
<1> QED BY <1>1, <1>2

LEMMA TaskOrder ==
  ASSUME TypeOK, Order, NEW t \in Recs, TaskStep(t)
  PROVE  Order'
<1> USE DEF Places, FilePlaces, NetPlaces, Goto, GotoWith
<1>0. /\ pc[t] \in FilePlaces => kind[t] = "file"
      /\ pc[t] \in NetPlaces => kind[t] = "net"
      /\ kind[t] \in {"file", "net"}
  BY DEF Order, TypeOK
<1> DEFINE Same == \A h \in Files : h[1] > rec => data'[h] = data[h] /\ pos'[h] = pos[h]
<1>1. CASE Head(t)
  <2>1. PICK w \in {"poll", "done", "pause"} : pc' = [pc EXCEPT ![t] = w]
                                          /\ (w = "pause" => kind[t] = "net")
    BY <1>1, <1>0 DEF Head
  <2> QED BY <1>0, <1>1, <2>1, StepOrder DEF Head, object, disk, Alive
<1>2. CASE Poll(t)
  <2>1. PICK w \in {"wait", "read"} : pc' = [pc EXCEPT ![t] = w]
    BY <1>2 DEF Poll
  <2> QED BY <1>0, <1>2, <2>1, StepOrder DEF Poll, object, disk, Alive
<1>3. CASE Read(t)
  <2>1. PICK w \in {"write", "send"} : pc' = [pc EXCEPT ![t] = w]
            /\ (w = "write" => kind[t] = "file") /\ (w = "send" => kind[t] = "net")
    BY <1>3, <1>0 DEF Read
  <2> QED BY <1>0, <1>3, <2>1, StepOrder DEF Read, object, disk, Alive
<1>4. CASE Write(t) \/ WriteRing(t) \/ WriteRest(t)
  BY <1>4, OutputOrder DEF Write, WriteRing, WriteRest
<1>5. CASE Continue(t)
  BY <1>0, <1>5, StepOrder DEF Continue, object, disk, Alive
<1>6. CASE Rewind(t)
  <2>1. PICK w \in {"ring", "read"} : pc' = [pc EXCEPT ![t] = w]
    BY <1>6 DEF Rewind
  <2>2. Same
    BY <1>6 DEF Rewind, Order, TypeOK
  <2> QED BY <1>0, <1>6, <2>1, <2>2, StepOrder DEF Rewind, Alive
<1>7. CASE Roll(t)
  <2>1. PICK w \in {"fail", "open"} : pc' = [pc EXCEPT ![t] = w]
    BY <1>7 DEF Roll
  <2> QED BY <1>0, <1>7, <2>1, StepOrder DEF Roll, Fclose, Alive
<1>8. CASE OpenNext(t)
  <2>1. PICK w \in {"rest", "read", "fail"} : pc' = [pc EXCEPT ![t] = w]
    BY <1>8 DEF OpenNext
  <2>2. Same
    BY <1>8 DEF OpenNext, Fopen, TypeOK, disk
  <2>3. fp' \in {NULL, <<rec, no>>}
    BY <1>8 DEF OpenNext, Fopen
  <2> QED BY <1>0, <1>8, <2>1, <2>2, <2>3, StepOrder DEF OpenNext, Alive
<1>9. CASE Fail(t)
  BY <1>0, <1>9, StepOrder DEF Fail, Fclose, Alive
<1>10. CASE CloseFilters(t)
  BY <1>0, <1>10, StepOrder DEF CloseFilters, object, disk, Alive
<1>11. CASE BecomeIdle(t)
  BY <1>0, <1>11, StepOrder DEF BecomeIdle, disk, Alive
<1>12. CASE Die(t)
  BY <1>0, <1>12, StepOrder DEF Die, object, disk, Alive
<1>13. CASE Listen(t)
  <2>1. PICK w \in {"top", "done"} : pc' = [pc EXCEPT ![t] = w]
    BY <1>13 DEF Listen
  <2> QED BY <1>0, <1>13, <2>1, StepOrder DEF Listen, object, disk, Alive
<1>14. CASE Accept(t)
  <2>1. PICK w \in {"wait", "top"} : pc' = [pc EXCEPT ![t] = w]
    BY <1>14 DEF Accept
  <2>2. pc[t] \in NetPlaces
    BY <1>14 DEF Accept
  <2> QED BY <1>0, <1>14, <2>1, <2>2, StepOrder DEF Accept, object, disk, Alive
<1>15. CASE Top(t)
  BY <1>0, <1>15, StepOrder DEF Top, disk, Alive
<1>16. CASE Send(t)
  BY <1>0, <1>16, StepOrder DEF Send, disk, Alive
<1> QED BY <1>1, <1>2, <1>3, <1>4, <1>5, <1>6, <1>7, <1>8, <1>9, <1>10, <1>11, <1>12,
           <1>13, <1>14, <1>15, <1>16 DEF TaskStep

\* A call that leaves the tasks and the recordings alone.
LEMMA QuietOrder ==
  ASSUME TypeOK, Order, UNCHANGED <<pc, rec, fp, kind, data, pos>>,
         disturbed \subseteq disturbed',
         ui' = "create" => ui = "reset", ui' \notin {"service", "reset"},
         ui' = "running" \/ status' = "run" => rec \in Recs
  PROVE  Order'
BY DEF Order, Alive, Empty

LEMMA CallOrder ==
  ASSUME TypeOK, Order,
         CallStep \/ (\E k \in {"file", "net"} : Begin(k)) \/ Halt
           \/ (\E m \in {"normal", "timeshift"} : SetMode(m))
  PROVE  Order'
<1>0. rec \in Nat /\ rec \in 0 .. MaxRecs /\ MaxRecs \in Nat
  BY RecorderAssumption DEF TypeOK
<1>1. CASE \E k \in {"file", "net"} : Begin(k)
  <2>1. PICK k \in {"file", "net"} : Begin(k)
    BY <1>1
  <2>2. /\ UNCHANGED <<pc, rec, fp, data, pos, status, disturbed>>
        /\ rec < MaxRecs /\ ui' \in {"service", "blocked"}
        /\ kind' = [kind EXCEPT ![rec + 1] = k]
    BY <2>1 DEF Begin, Lock, object, task, disk
  <2>3. \A r \in Recs : pc[r] # "none" => kind'[r] = kind[r]
    BY <1>0, <2>2 DEF TypeOK, Order, Recs
  <2> QED BY <2>2, <2>3 DEF Order, Alive, Empty, FilePlaces, NetPlaces
<1>2. CASE NoService
  BY <1>2, QuietOrder DEF NoService, object, task, disk, Order
<1>3. CASE Prepare
  <2>0. rec < MaxRecs /\ rec + 1 \in Recs /\ UNCHANGED <<status, pc, kind>>
    BY <1>0, <1>3 DEF Prepare, Order, Recs, task
  <2>1. CASE fp' = NULL /\ ui' = "menu" /\ UNCHANGED <<rec, disk>>
                      /\ disturbed' = disturbed \cup Interferes({rec})
    BY <2>0, <2>1, <1>0 DEF Order, Alive, Empty, disk, NULL
  <2>2. CASE /\ \/ fp' = <<rec + 1, 0>> /\ Fopen(<<rec + 1, 0>>)
                \/ UNCHANGED <<fp, disk>>
             /\ rec' = rec + 1 /\ ui' = "reset"
             /\ disturbed' = disturbed \cup Interferes({rec, rec + 1})
    <3>1. \A r \in Recs : r > rec' => pc'[r] = "none"
      BY <2>0, <2>2, <1>0 DEF Order, Recs
    <3>2. rec' \in Recs /\ pc'[rec'] = "none"
      BY <2>0, <2>2, <1>0 DEF Order
    <3>3. ASSUME NEW t \in Recs, Alive(t)'
          PROVE  /\ t < rec' => t \in disturbed'
                 /\ \A r \in Recs : t < r /\ r <= rec' => r \in disturbed'
      <4>1. Alive(t) /\ t <= rec
        BY <3>3, <2>0, <1>0 DEF Alive, Order, Recs
      <4>2. {rec, rec + 1} \cap Recs \subseteq disturbed'
        BY <4>1, <2>2 DEF Interferes
      <4>3. t \in disturbed'
        <5>1. CASE t = rec
          BY <5>1, <4>2
        <5>2. CASE t < rec
          BY <5>2, <4>1, <2>2 DEF Order
        <5> QED BY <5>1, <5>2, <4>1, <1>0 DEF Recs
      <4>4. ASSUME NEW r \in Recs, t < r, r <= rec' PROVE r \in disturbed'
        <5>1. CASE r = rec + 1
          BY <5>1, <4>2
        <5>2. CASE r <= rec
          BY <5>2, <4>1, <4>4, <2>2 DEF Order
        <5> QED BY <5>1, <5>2, <4>4, <2>2, <1>0 DEF Recs
      <4> QED BY <4>3, <4>4
    <3>4. /\ \A t \in Recs : Alive(t)' /\ kind'[t] = "file" => fp' = NULL \/ fp'[1] >= t
          /\ fp'[1] <= rec'
      <4>1. \A t \in Recs : Alive(t)' => Alive(t) /\ t <= rec
        BY <2>0, <1>0 DEF Alive, Order, Recs
      <4>2. fp' = fp \/ fp' = <<rec + 1, 0>>
        BY <2>2
      <4>3. fp = NULL \/ fp[1] \in Int
        BY DEF TypeOK, Files, Recs
      <4>4. fp[1] \in Int
        BY <4>3 DEF NULL
      <4>5. CASE fp' = fp
        BY <4>1, <4>4, <4>5, <2>0, <2>2, <1>0 DEF Order
      <4>6. CASE fp' = <<rec + 1, 0>>
        BY <4>1, <4>6, <2>0, <2>2, <1>0 DEF Recs
      <4> QED BY <4>2, <4>5, <4>6
    <3>5. \A h \in Files : h[1] > rec' => Empty(h)' /\ pos'[h] = 0
      <4>1. ASSUME NEW h \in Files, h[1] > rec' PROVE data'[h] = data[h] /\ pos'[h] = pos[h]
        <5>1. h # <<rec + 1, 0>>
          BY <4>1, <2>2, <1>0
        <5> QED BY <5>1, <2>2 DEF Fopen, disk, TypeOK
      <4>2. \A h \in Files : h[1] > rec' => h[1] > rec
        BY <2>2, <1>0 DEF Files, Recs
      <4> QED BY <4>1, <4>2 DEF Order, Empty
    <3>6. kind'[rec'] = "file" => fp' = NULL \/ fp'[1] >= rec'
      BY <2>0, <2>2, <1>0, <1>3 DEF Prepare, Fopen
    <3> QED BY <2>0, <2>2, <3>1, <3>2, <3>3, <3>4, <3>5, <3>6 DEF Order
  <2> QED BY <1>3, <2>1, <2>2 DEF Prepare, Fopen
<1>4. CASE Reset
  BY <1>4, QuietOrder DEF Reset, task, disk, Order
<1>5. CASE Create
  <2>1. rec \in Recs /\ UNCHANGED <<rec, kind, fp, data, pos, disturbed, status>> /\ ui' = "running"
    BY <1>5 DEF Create, Order, object, disk
  <2>2. PICK w \in {"wait", "listen"} :
          /\ pc' = [pc EXCEPT ![rec] = w]
          /\ (w = "wait" => kind[rec] = "file") /\ (w = "listen" => kind[rec] = "net")
    BY <1>5, <2>1 DEF Create, Goto, TypeOK
  <2>3. /\ pc'[rec] = w /\ \A r \in Recs : r # rec => pc'[r] = pc[r]
    BY <2>1, <2>2 DEF TypeOK
  <2>4. \A r \in Recs : r > rec => pc'[r] = "none"
    BY <2>1, <2>3, <1>0 DEF Order
  <2>5. \A r \in Recs : Alive(r)' => Alive(r) \/ r = rec
    BY <2>3 DEF Alive
  <2>6. /\ \A t \in Recs : Alive(t)' =>
             /\ t < rec => t \in disturbed
             /\ \A r \in Recs : t < r /\ r <= rec => r \in disturbed
    BY <2>5, <1>0 DEF Order, Recs
  <2>7. \A t \in Recs : Alive(t)' /\ kind[t] = "file" => fp = NULL \/ fp[1] >= t
    BY <2>5, <1>5 DEF Order, Create, Alive
  <2> QED BY <2>1, <2>2, <2>3, <2>4, <2>6, <2>7 DEF Order, FilePlaces, NetPlaces, Empty
<1>6. CASE Running
  BY <1>6, QuietOrder DEF Running, task, disk, Order
<1>7. CASE Halt
  BY <1>7, QuietOrder DEF Halt, Lock, disk, Order
<1>8. CASE Close
  BY <1>8, QuietOrder DEF Close, Fclose, object, task, Order
<1>9. CASE Filters \/ Idled
  BY <1>9, QuietOrder DEF Filters, Idled, object, task, disk, Order
<1>10. CASE \E m \in {"normal", "timeshift"} : SetMode(m)
  BY <1>10, QuietOrder DEF SetMode, object, task, disk, Order
<1> QED BY <1>1, <1>2, <1>3, <1>4, <1>5, <1>6, <1>7, <1>8, <1>9, <1>10 DEF CallStep

-----------------------------------------------------------------------------
(* The order of the units. *)

LEMMA QuietSeamless ==
  ASSUME Seamless, UNCHANGED <<data, pos>>, disturbed \subseteq disturbed'
  PROVE  Seamless'
BY DEF Seamless, Joined, Empty, Whole

\* A task other than that of the last recording lives only in a disturbed one.
LEMMA Others ==
  ASSUME TypeOK, Order, NEW t \in Recs, Alive(t), t # rec
  PROVE  rec \in disturbed
BY DEF TypeOK, Order, Alive, Recs

\* The file open is that of a disturbed recording, unless the task is undisturbed.
LEMMA Foreign ==
  ASSUME TypeOK, Order, NEW t \in Recs, Alive(t), kind[t] = "file", fp \in Files,
         t # rec \/ rec \in disturbed
  PROVE  fp[1] \in disturbed
<1>1. fp[1] \in Recs /\ fp # NULL
  BY DEF Files, NULL, Recs
<1>2. fp[1] >= t /\ fp[1] <= rec /\ rec \in Int
  BY <1>1 DEF Order, TypeOK
<1>3. CASE fp[1] = rec
  BY <1>3, Others
<1>4. CASE fp[1] = t /\ t < rec
  BY <1>4 DEF Order
<1>5. CASE t < fp[1]
  BY <1>1, <1>2, <1>5 DEF Order
<1> QED BY <1>1, <1>2, <1>3, <1>4, <1>5 DEF Recs

\* What happens to a file of a disturbed recording is of no account.
LEMMA ForeignSeamless ==
  ASSUME Seamless, NEW r \in disturbed, disturbed' = disturbed,
         \A g \in Files : g[1] # r => data'[g] = data[g] /\ pos'[g] = pos[g]
  PROVE  Seamless'
<1> SUFFICES ASSUME NEW q \in Recs \ disturbed, NEW f \in 0 .. LastFile
             PROVE  /\ LET h == <<q, f>> IN Fits(data'[h], pos'[h]) /\ Follows(data'[h], pos'[h])
                    /\ f < LastFile => Joined(q, f)'
  BY DEF Seamless
<1>0. LastFile \in Nat
  BY RecorderAssumption
<1>1. \A e \in 0 .. LastFile : data'[<<q, e>>] = data[<<q, e>>] /\ pos'[<<q, e>>] = pos[<<q, e>>]
  BY DEF Files
<1>2. f < LastFile => f + 1 \in 0 .. LastFile
  BY <1>0
<1> QED BY <1>1, <1>2 DEF Seamless, Joined, Empty, Whole

\* A write to the file of the last recording, undisturbed, of the next n units.
LEMMA OwnWrite ==
  ASSUME TypeOK, Seamless, rec \in Recs \ disturbed, Tail,
         NEW c \in Nat, NEW w \in Int, NEW n \in Nat, At(c, w), c + n <= MaxSize,
         Fwrite(w, n), UNCHANGED <<rec, no, fp, disturbed, mode>>
  PROVE  Seamless' /\ At(c + n, w + n)' /\ Tail'
<1> DEFINE h == <<rec, no>>
<1>0. MaxSize \in Nat \ {0} /\ LastFile \in Nat
  BY RecorderAssumption
<1>1. fp = h /\ h \in Files /\ pos[h] = c /\ no \in 0 .. LastFile
  BY DEF At, Files
<1>2. /\ data'[h] = Put(data[h], c, w, n) /\ pos'[h] = c + n
      /\ \A g \in Files : g # h => data'[g] = data[g] /\ pos'[g] = pos[g]
  BY <1>1 DEF Fwrite, TypeOK
<1>3. Fits(data[h], c) /\ Follows(data[h], c)
  BY <1>1 DEF Seamless
<1>4. /\ c > 0 => data[h][c - 1] = w - 1
      /\ c = 0 /\ DOMAIN data[h] # {} => data[h][MaxSize - 1] = w - 1
  BY <1>1 DEF At, Reached, Empty
<1>5. Fits(data'[h], pos'[h]) /\ Follows(data'[h], pos'[h])
  <2>1. \A o \in DOMAIN data[h] : data[h][o] \in Int
    BY <1>1 DEF TypeOK
  <2>2. Fits(Put(data[h], c, w, n), c + n) /\ Follows(Put(data[h], c, w, n), c + n)
    BY <2>1, <1>3, <1>4, PutKeeps
  <2> QED BY <2>2, <1>2
<1>6. /\ DOMAIN data'[h] = DOMAIN data[h] \cup c .. c + n - 1
      /\ \A o \in c .. c + n - 1 : data'[h][o] = w + (o - c)
      /\ \A o \in DOMAIN data[h] \ (c .. c + n - 1) : data'[h][o] = data[h][o]
  <2>1. DOMAIN data[h] \subseteq Int
    BY <1>0, <1>3 DEF Fits
  <2>2. PICK d : d = data[h]
    OBVIOUS
  <2>3. data'[h] = Put(d, c, w, n) /\ DOMAIN d \subseteq Int
    BY <2>1, <2>2, <1>2
  <2>4. /\ DOMAIN Put(d, c, w, n) = DOMAIN d \cup c .. c + n - 1
        /\ \A o \in c .. c + n - 1 : Put(d, c, w, n)[o] = w + (o - c)
        /\ \A o \in DOMAIN d \ (c .. c + n - 1) : Put(d, c, w, n)[o] = d[o]
    <3>1. DOMAIN d \subseteq Int /\ c \in Nat /\ w \in Int /\ n \in Nat
      BY <2>3
    <3> QED BY <3>1 DEF Put
  <2>5. PICK e : e = data'[h]
    OBVIOUS
  <2>6. e = Put(d, c, w, n)
    BY <2>3, <2>5
  <2>7. /\ DOMAIN e = DOMAIN d \cup c .. c + n - 1
        /\ \A o \in c .. c + n - 1 : e[o] = w + (o - c)
        /\ \A o \in DOMAIN d \ (c .. c + n - 1) : e[o] = d[o]
    BY <2>4, <2>6, Zenon
  <2> QED BY <2>2, <2>5, <2>7, Zenon
<1>7. DOMAIN data[h] = {} => c = 0
  BY <1>0, <1>3 DEF Fits
<1>8. c \in DOMAIN data[h] => DOMAIN data[h] = 0 .. MaxSize - 1
  BY <1>3 DEF Fits
<1>9. DOMAIN data[h] # {} => 0 \in DOMAIN data[h]
  BY <1>3, <1>0 DEF Fits
<1>10. no > 0 => <<rec, no - 1>> \in Files /\ <<rec, no - 1>> # h
  BY <1>1, <1>0 DEF Files
<1>11. ASSUME no > 0, DOMAIN data'[h] # {}
       PROVE  Whole(<<rec, no - 1>>)' /\ data'[h][0] = data'[<<rec, no - 1>>][MaxSize - 1] + 1
  <2>1. data'[<<rec, no - 1>>] = data[<<rec, no - 1>>]
    BY <1>10, <1>11, <1>2
  <2>2. CASE DOMAIN data[h] = {}
    <3>1. c = 0 /\ n > 0
      BY <2>2, <1>7, <1>6, <1>11
    <3>2. data'[h][0] = w
      BY <3>1, <1>6
    <3>3. Whole(<<rec, no - 1>>) /\ data[<<rec, no - 1>>][MaxSize - 1] = w - 1
      BY <2>2, <1>11 DEF At, Reached, Empty
    <3> QED BY <2>1, <3>2, <3>3 DEF Whole
  <2>3. CASE DOMAIN data[h] # {}
    <3>1. c > 0
      BY <2>3, <1>1, <1>11 DEF Tail, Empty
    <3>2. data'[h][0] = data[h][0]
      BY <3>1, <1>6, <1>9, <2>3
    <3>3. Joined(rec, no - 1)
      <4>1. no - 1 \in 0 .. LastFile /\ no - 1 < LastFile
        BY <1>1, <1>11, <1>0
      <4> QED BY <4>1 DEF Seamless
    <3>4. Whole(<<rec, no - 1>>) /\ data[h][0] = data[<<rec, no - 1>>][MaxSize - 1] + 1
      BY <3>3, <2>3, <1>1 DEF Joined, Empty
    <3> QED BY <2>1, <3>2, <3>4 DEF Whole
  <2> QED BY <2>2, <2>3
<1>12. Tail'
  <2>1. ASSUME NEW f \in 0 .. LastFile, f > no PROVE Empty(<<rec, f>>)'
    <3>1. <<rec, f>> \in Files /\ <<rec, f>> # h
      BY <2>1, <1>1 DEF Files
    <3> QED BY <3>1, <2>1, <1>2 DEF Tail, Empty
  <2>2. no > 0 /\ DOMAIN data'[h] # {} => pos'[h] > 0
    <3>1. CASE n > 0
      BY <3>1, <1>2
    <3>2. CASE n = 0
      BY <3>2, <1>1, <1>2, <1>6 DEF Tail, Empty
    <3> QED BY <3>1, <3>2
  <2> QED BY <2>1, <2>2 DEF Tail, Empty
<1>13. Seamless'
  <2> SUFFICES ASSUME NEW q \in Recs \ disturbed, NEW f \in 0 .. LastFile
               PROVE  /\ Fits(data'[<<q, f>>], pos'[<<q, f>>]) /\ Follows(data'[<<q, f>>], pos'[<<q, f>>])
                      /\ f < LastFile => Joined(q, f)'
    BY DEF Seamless
  <2>0. <<q, f>> \in Files /\ (f < LastFile => f + 1 \in 0 .. LastFile /\ <<q, f + 1>> \in Files)
    BY <1>0 DEF Files
  <2>1. Fits(data'[<<q, f>>], pos'[<<q, f>>]) /\ Follows(data'[<<q, f>>], pos'[<<q, f>>])
    BY <2>0, <1>2, <1>5 DEF Seamless
  <2>2. ASSUME f < LastFile PROVE Joined(q, f)'
    <3>1. CASE <<q, f + 1>> = h
      <4>1. q = rec /\ f = no - 1 /\ no > 0
        BY <3>1, <2>0
      <4> QED BY <4>1, <3>1, <1>11 DEF Joined, Empty
    <3>2. CASE <<q, f>> = h
      BY <3>2, <2>0, <2>2, <1>12 DEF Joined, Tail
    <3>3. CASE <<q, f + 1>> # h /\ <<q, f>> # h
      BY <3>3, <2>0, <2>2, <1>2 DEF Seamless, Joined, Empty, Whole
    <3> QED BY <3>1, <3>2, <3>3
  <2> QED BY <2>1, <2>2
<1>14. At(c + n, w + n)'
  <2>1. Reached(w + n)'
    <3>1. CASE n > 0
      <4>1. pos'[h] > 0 /\ DOMAIN data'[h] # {} /\ data'[h][pos'[h] - 1] = w + n - 1
        BY <3>1, <1>2, <1>6
      <4> QED BY <4>1 DEF Reached, Empty
    <3>2. CASE n = 0
      <4>1. DOMAIN data'[h] = DOMAIN data[h] /\ pos'[h] = pos[h] /\ pos[h] = c
        BY <3>2, <1>6, <1>2, <1>1
      <4>2. \A o \in DOMAIN data[h] : data'[h][o] = data[h][o]
        BY <3>2, <1>6
      <4>3. /\ c > 0 => c - 1 \in DOMAIN data[h]
            /\ c = 0 /\ DOMAIN data[h] # {} => MaxSize - 1 \in DOMAIN data[h]
        BY <1>3, <1>8, <1>9, <1>0 DEF Fits
      <4>4. /\ pos'[h] > 0 => data'[h][pos'[h] - 1] = w - 1
            /\ pos'[h] = 0 /\ DOMAIN data'[h] # {} => data'[h][MaxSize - 1] = w - 1
        BY <4>1, <4>2, <4>3, <1>4
      <4>5. DOMAIN data'[h] = {} /\ no > 0 =>
              Whole(<<rec, no - 1>>)' /\ data'[<<rec, no - 1>>][MaxSize - 1] = w - 1
        BY <4>1, <1>10, <1>2 DEF At, Reached, Whole, Empty
      <4> QED BY <3>2, <4>4, <4>5 DEF Reached, Empty
    <3> QED BY <3>1, <3>2
  <2> QED BY <2>1, <1>1, <1>2 DEF At
<1> QED BY <1>12, <1>13, <1>14

-----------------------------------------------------------------------------
(* The steps of the task of the last recording, undisturbed. *)

\* A write by the task, of what the buffer holds from unit u on.
LEMMA OwnOutput ==
  ASSUME IInv, rec \in Recs \ disturbed, Tail, ~crash,
         NEW c \in Nat, NEW u \in Int, At(c, Unit(rec, u)), NEW want \in Int,
         c + want <= MaxSize, NEW ok \in {"after", "read"}, NEW d,
         Output(rec, u, want, ok, d)
  PROVE  /\ Seamless'
         /\ ~crash' =>
              \/ pc' = [pc EXCEPT ![rec] = "fail"] /\ Tail'
              \/ /\ pc' = [pc EXCEPT ![rec] = ok] /\ cnt' = d /\ want \in Nat
                 /\ wr' = [wr EXCEPT ![rec] = IF ok = "after" THEN want ELSE 0]
                 /\ At(c + want, Unit(rec, u) + want)' /\ Tail'
<1>1. CASE fp \notin opened \/ want < 0
  <2>1. crash' = TRUE /\ UNCHANGED <<data, pos, disturbed>>
    BY <1>1 DEF Output, disk, call
  <2> QED BY <2>1, QuietSeamless DEF IInv
<1>2. CASE ~(fp \notin opened \/ want < 0)
  <2>1. PICK n \in 0 .. want :
          /\ Fwrite(Unit(rec, u), n)
          /\ IF n = want THEN GotoWith(rec, ok, IF ok = "after" THEN n ELSE 0) /\ cnt' = d
                         ELSE GotoWith(rec, "fail", 0) /\ cnt' = cnt + n
    BY <1>2 DEF Output
  <2>2. PICK w \in Int : w = Unit(rec, u)
    BY DEF Unit, IInv, TypeOK
  <2>3. n \in Nat /\ c + n <= MaxSize /\ MaxSize \in Nat
    BY RecorderAssumption
  <2>4. UNCHANGED <<rec, no, fp, disturbed, mode>>
    BY DEF Output, call
  <2>5. Seamless' /\ At(c + n, w + n)' /\ Tail'
    BY <2>1, <2>2, <2>3, <2>4, OwnWrite DEF IInv
  <2>6. Unit(rec, u)' = w
    BY <2>2, <2>4 DEF Output, Unit, call
  <2>7. Seamless' /\ At(c + n, Unit(rec, u) + n)' /\ Tail'
    BY <2>5, <2>6
  <2>8. CASE n = want
    BY <2>1, <2>7, <2>8 DEF GotoWith, Goto
  <2>9. CASE n # want
    BY <2>1, <2>7, <2>9 DEF GotoWith, Goto
  <2> QED BY <2>8, <2>9
<1> QED BY <1>1, <1>2

\* A write by the task of a disturbed recording.
LEMMA ForeignOutput ==
  ASSUME TypeOK, Order, Seamless, NEW t \in Recs, pc[t] \in FilePlaces,
         t # rec \/ rec \in disturbed,
         NEW u, NEW want, NEW ok, NEW d, Output(t, u, want, ok, d)
  PROVE  Seamless'
<1>1. CASE fp \notin opened \/ want < 0
  <2>1. UNCHANGED <<data, pos, disturbed>>
    BY <1>1 DEF Output, disk, call
  <2> QED BY <2>1, QuietSeamless
<1>2. CASE ~(fp \notin opened \/ want < 0)
  <2>1. fp \in Files /\ Alive(t) /\ kind[t] = "file"
    BY <1>2 DEF TypeOK, Order, Alive, FilePlaces
  <2>2. fp[1] \in disturbed
    BY <2>1, Foreign
  <2>3. \A g \in Files : g # fp => data'[g] = data[g] /\ pos'[g] = pos[g]
    BY <1>2 DEF Output, Fwrite, TypeOK
  <2>4. disturbed' = disturbed
    BY DEF Output, call
  <2> QED BY <2>2, <2>3, <2>4, ForeignSeamless
<1> QED BY <1>1, <1>2

\* The task of the last recording writes.
LEMMA OwnWrites ==
  ASSUME IInv, rec \in Recs \ disturbed, kind[rec] = "file", ~crash,
         Write(rec) \/ WriteRing(rec) \/ WriteRest(rec)
  PROVE  Seamless' /\ (~crash' => Held')
<1> DEFINE t == rec
<1>0. /\ MaxSize \in Nat \ {0} /\ MaxLen \in Nat /\ MaxLen <= MaxSize
      /\ len[t] \in 0 .. MaxLen /\ wr[t] \in Nat /\ next \in Nat /\ cnt \in Int
      /\ pc \in [Recs -> Places] /\ wr \in [Recs -> Nat]
  BY RecorderAssumption DEF IInv, TypeOK
<1>1. Alive(t)
  BY DEF Write, WriteRing, WriteRest, Alive
<1>2. Held /\ Tail
  BY <1>1 DEF IInv, Progress, Held
<1>3. UNCHANGED <<rec, next, len, stopped>>
  BY DEF Write, WriteRing, WriteRest, Output, call
<1>4. CASE Write(t)
  <2>1. /\ len[t] >= 1 /\ cnt \in 0 .. MaxSize - 1 /\ At(cnt, next - len[t])
    BY <1>2, <1>4 DEF Write, Held
  <2> DEFINE n == Towrite(t)
  <2>2. n \in 1 .. len[t] /\ cnt + n <= MaxSize /\ (cnt + n < MaxSize => n = len[t])
    BY <2>1, <1>0 DEF Towrite
  <2>3. Unit(t, 0) = next - len[t]
    BY <1>0 DEF Unit
  <2>4. Output(t, 0, n, "after", cnt + n)
    BY <1>4 DEF Write
  <2>5. PICK m \in Int, c \in Nat : m = n /\ c = cnt
    BY <2>1, <2>2
  <2>6. /\ Seamless'
        /\ ~crash' =>
              \/ pc' = [pc EXCEPT ![t] = "fail"] /\ Tail'
              \/ /\ pc' = [pc EXCEPT ![t] = "after"] /\ cnt' = c + m /\ m \in Nat
                 /\ wr' = [wr EXCEPT ![t] = m]
                 /\ At(c + m, Unit(t, 0) + m)' /\ Tail'
    BY <1>2, <2>1, <2>2, <2>3, <2>4, <2>5, OwnOutput
  <2>7. CASE pc' = [pc EXCEPT ![t] = "fail"] /\ Tail'
    BY <1>0, <1>3, <2>6, <2>7 DEF Held
  <2>8. CASE /\ pc' = [pc EXCEPT ![t] = "after"] /\ cnt' = c + m /\ m \in Nat
             /\ wr' = [wr EXCEPT ![t] = m]
             /\ At(c + m, Unit(t, 0) + m)' /\ Tail'
    <3>1. pc'[t] = "after" /\ wr'[t] = m /\ t' = t
      BY <1>0, <1>3, <2>8
    <3>2. Unit(t, 0)' + m = next' - len'[t] + wr'[t]
      BY <1>0, <1>3, <2>8, <3>1 DEF Unit
    <3>3. At(cnt, next - len[rec] + wr[rec])'
      BY <2>8, <3>1, <3>2
    <3> QED BY <1>0, <1>3, <2>2, <2>5, <2>6, <2>8, <3>1, <3>3 DEF Held
  <2> QED BY <2>6, <2>7, <2>8
<1>5. CASE WriteRing(t)
  <2>1. /\ cnt = MaxSize /\ At(0, next - len[t] + wr[t]) /\ wr[t] \in 1 .. len[t] - 1
    BY <1>2, <1>5 DEF WriteRing, Held
  <2> DEFINE n == Rest(t)
  <2>2. n \in 1 .. MaxSize - 1 /\ n = len[t] - wr[t]
    BY <2>1, <1>0 DEF Rest
  <2>3. Unit(t, wr[t]) = next - len[t] + wr[t]
    BY <1>0 DEF Unit
  <2>4. Output(t, wr[t], n, "read", cnt + n - MaxSize)
    BY <1>5 DEF WriteRing
  <2>5. PICK m \in Int, u \in Int : m = n /\ u = wr[t]
    BY <1>0, <2>2
  <2>6. /\ Seamless'
        /\ ~crash' =>
              \/ pc' = [pc EXCEPT ![t] = "fail"] /\ Tail'
              \/ /\ pc' = [pc EXCEPT ![t] = "read"] /\ cnt' = m
                 /\ At(m, Unit(t, u) + m)' /\ Tail'
    BY <1>0, <1>2, <2>1, <2>2, <2>3, <2>4, <2>5, OwnOutput
  <2>7. CASE pc' = [pc EXCEPT ![t] = "fail"] /\ Tail'
    BY <1>0, <1>3, <2>6, <2>7 DEF Held
  <2>8. CASE /\ pc' = [pc EXCEPT ![t] = "read"] /\ cnt' = m
             /\ At(m, Unit(t, u) + m)' /\ Tail'
    <3>1. pc'[t] = "read" /\ t' = t
      BY <1>0, <1>3, <2>8
    <3>2. Unit(t, u)' + m = next'
      BY <1>0, <1>3, <2>2, <2>5 DEF Unit
    <3>3. Going'
      BY <1>0, <2>2, <2>5, <2>8, <3>2 DEF Going
    <3> QED BY <2>6, <2>8, <3>1, <3>3 DEF Held
  <2> QED BY <2>6, <2>7, <2>8
<1>6. CASE WriteRest(t)
  <2>1. /\ cnt = 0 /\ At(0, next - len[t] + wr[t]) /\ wr[t] \in 1 .. len[t] - 1
    BY <1>2, <1>6 DEF WriteRest, Held
  <2> DEFINE n == Rest(t)
  <2>2. n \in 1 .. MaxSize - 1 /\ n = len[t] - wr[t]
    BY <2>1, <1>0 DEF Rest
  <2>3. Unit(t, wr[t]) = next - len[t] + wr[t]
    BY <1>0 DEF Unit
  <2>4. Output(t, wr[t], n, "read", cnt + n)
    BY <1>6 DEF WriteRest
  <2>5. PICK m \in Int, u \in Int : m = n /\ u = wr[t]
    BY <1>0, <2>2
  <2>6. /\ Seamless'
        /\ ~crash' =>
              \/ pc' = [pc EXCEPT ![t] = "fail"] /\ Tail'
              \/ /\ pc' = [pc EXCEPT ![t] = "read"] /\ cnt' = m
                 /\ At(m, Unit(t, u) + m)' /\ Tail'
    BY <1>0, <1>2, <2>1, <2>2, <2>3, <2>4, <2>5, OwnOutput
  <2>7. CASE pc' = [pc EXCEPT ![t] = "fail"] /\ Tail'
    BY <1>0, <1>3, <2>6, <2>7 DEF Held
  <2>8. CASE /\ pc' = [pc EXCEPT ![t] = "read"] /\ cnt' = m
             /\ At(m, Unit(t, u) + m)' /\ Tail'
    <3>1. pc'[t] = "read" /\ t' = t
      BY <1>0, <1>3, <2>8
    <3>2. Unit(t, u)' + m = next'
      BY <1>0, <1>3, <2>2, <2>5 DEF Unit
    <3>3. Going'
      BY <1>0, <2>2, <2>5, <2>8, <3>2 DEF Going
    <3> QED BY <2>6, <2>8, <3>1, <3>3 DEF Held
  <2> QED BY <2>6, <2>7, <2>8
<1> QED BY <1>4, <1>5, <1>6

\* The task of the last recording rewinds the ring.
LEMMA OwnRewind ==
  ASSUME IInv, rec \in Recs \ disturbed, kind[rec] = "file", ~crash, Rewind(rec)
  PROVE  Seamless' /\ (~crash' => Held')
<1> DEFINE t == rec
           h == <<rec, no>>
<1>0. /\ MaxSize \in Nat \ {0} /\ LastFile \in Nat
      /\ len[t] \in Nat /\ wr[t] \in Nat /\ next \in Nat
      /\ pc \in [Recs -> Places] /\ wr \in [Recs -> Nat]
  BY RecorderAssumption DEF IInv, TypeOK
<1>1. Held /\ Tail /\ Seamless
  BY DEF IInv, Progress, Held, Rewind, Alive
<1>2. /\ cnt = MaxSize /\ At(cnt, next - len[t] + wr[t]) /\ mode = "timeshift"
      /\ wr[t] \in 1 .. len[t]
  BY <1>0, <1>1 DEF Rewind, Held
<1>3. fp = h /\ h \in Files /\ pos[h] = MaxSize /\ no = 0
  BY <1>1, <1>2 DEF At, Tail
<1>4. DOMAIN data[h] = 0 .. MaxSize - 1 /\ Follows(data[h], MaxSize)
  BY <1>0, <1>1, <1>3 DEF Seamless, Fits, Files
<1>5. data[h][MaxSize - 1] = next - len[t] + wr[t] - 1
  BY <1>0, <1>2, <1>3 DEF At, Reached
<1>6. CASE fp \notin opened
  <2>1. crash' /\ UNCHANGED <<data, pos, disturbed>>
    BY <1>6 DEF Rewind, call
  <2> QED BY <2>1, <1>1, QuietSeamless
<1>7. CASE fp \in opened
  <2>1. /\ pos' = [pos EXCEPT ![h] = 0]
        /\ UNCHANGED <<data, disturbed, rec, no, fp, next, len, mode, stopped>>
    BY <1>3, <1>7 DEF Rewind, call
  <2>2. pos'[h] = 0 /\ \A g \in Files : g # h => pos'[g] = pos[g]
    BY <1>3, <2>1 DEF IInv, TypeOK
  <2>3. Fits(data[h], 0) /\ Follows(data[h], 0)
    <3>1. PICK d : d = data[h]
      OBVIOUS
    <3>2. DOMAIN d = 0 .. MaxSize - 1 /\ Follows(d, MaxSize)
      BY <1>4, <3>1
    <3>3. Fits(d, 0)
      BY <1>0, <3>2 DEF Fits
    <3>4. Follows(d, 0)
      BY <1>0, <3>2 DEF Follows
    <3> QED BY <3>1, <3>3, <3>4
  <2>4. Seamless'
    <3>1. ASSUME NEW q \in Recs \ disturbed, NEW f \in 0 .. LastFile
          PROVE  Fits(data'[<<q, f>>], pos'[<<q, f>>]) /\ Follows(data'[<<q, f>>], pos'[<<q, f>>])
      <4>1. <<q, f>> \in Files
        BY DEF Files
      <4> QED BY <4>1, <2>1, <2>2, <2>3, <1>1 DEF Seamless
    <3> QED BY <3>1, <2>1, <1>1 DEF Seamless, Joined, Empty, Whole
  <2>5. Tail'
    BY <1>1, <1>3, <2>1 DEF Tail, Empty
  <2>6. PICK v \in Int : v = next - len[t] + wr[t] /\ data[h][MaxSize - 1] = v - 1
    BY <1>0, <1>5
  <2>7. At(0, v)'
    <3>1. rec' = rec /\ no' = no /\ fp' = h /\ pos'[h] = 0
      BY <1>3, <2>1, <2>2
    <3>2. DOMAIN data'[h] # {} /\ data'[h][MaxSize - 1] = v - 1
      <4>1. data'[h] = data[h]
        BY <2>1
      <4>2. 0 \in DOMAIN data[h]
        BY <1>0, <1>4
      <4>3. data[h][MaxSize - 1] = v - 1
        BY <2>6
      <4> QED BY <4>1, <4>2, <4>3
    <3> HIDE DEF h
    <3>3. Reached(v)'
      <4>1. <<rec', no'>> = h
        BY <3>1 DEF h
      <4> QED BY <3>1, <3>2, <4>1 DEF Reached, Empty
    <3> QED BY <1>3, <3>1, <3>3 DEF At, h
  <2>8. CASE Rest(t) > 0
    <3>1. pc' = [pc EXCEPT ![t] = "ring"] /\ UNCHANGED <<cnt, wr>>
      BY <2>8 DEF Rewind, Goto
    <3>2. wr[t] \in 1 .. len[t] - 1 /\ next' - len'[t'] + wr'[t'] = v
      BY <1>0, <1>2, <2>1, <2>6, <2>8, <3>1 DEF Rest
    <3>3. Whole(fp)'
      BY <1>3, <1>4, <2>1 DEF Whole
    <3>4. pc'[rec'] = "ring"
      BY <1>0, <2>1, <3>1
    <3>5. At(0, next - len[rec] + wr[rec])'
      BY <2>7, <3>2
    <3> QED BY <1>2, <2>1, <2>4, <2>5, <3>1, <3>2, <3>3, <3>4, <3>5 DEF Held
  <2>9. CASE ~(Rest(t) > 0)
    <3>1. pc' = [pc EXCEPT ![t] = "read"] /\ cnt' = cnt - MaxSize
      BY <2>9 DEF Rewind, Goto, GotoWith
    <3>2. cnt' = 0 /\ v = next'
      BY <1>0, <1>2, <2>1, <2>6, <2>9, <3>1 DEF Rest
    <3>3. Going'
      BY <1>0, <2>7, <3>2 DEF Going
    <3>4. pc'[rec'] = "read"
      BY <1>0, <2>1, <3>1
    <3> QED BY <2>4, <2>5, <3>3, <3>4 DEF Held
  <2> QED BY <2>8, <2>9
<1> QED BY <1>6, <1>7

\* The task of the last recording opens the next file.
LEMMA OwnOpen ==
  ASSUME IInv, rec \in Recs \ disturbed, kind[rec] = "file", ~crash, OpenNext(rec)
  PROVE  Seamless' /\ (~crash' => Held')
<1> DEFINE t == rec
           h == <<rec, no>>
<1>0. /\ MaxSize \in Nat \ {0} /\ LastFile \in Nat /\ no \in Nat
      /\ len[t] \in Nat /\ wr[t] \in Nat /\ next \in Nat
      /\ pc \in [Recs -> Places] /\ wr \in [Recs -> Nat]
  BY RecorderAssumption DEF IInv, TypeOK
<1>1. Held /\ Tail /\ Seamless
  BY DEF IInv, Progress, Held, OpenNext, Alive
<1>2. /\ cnt = 0 /\ no \in 1 .. LastFile /\ Reached(next - len[t] + wr[t])
      /\ Empty(h) /\ wr[t] \in 1 .. len[t]
  BY <1>0, <1>1 DEF OpenNext, Held
<1>3. UNCHANGED <<disturbed, rec, no, cnt, next, len, mode, stopped, crash>>
  BY DEF OpenNext, call
<1>4. CASE fp' = NULL /\ GotoWith(t, "fail", 0) /\ UNCHANGED disk
  <2>1. pc'[rec'] = "fail" /\ UNCHANGED <<data, pos>>
    BY <1>0, <1>3, <1>4 DEF GotoWith, Goto, disk
  <2>2. Seamless'
    BY <1>1, <1>3, <2>1, QuietSeamless
  <2>3. Tail'
    BY <1>1, <1>3, <2>1 DEF Tail, Empty
  <2> QED BY <2>1, <2>2, <2>3 DEF Held
<1>5. CASE /\ h \in Files /\ Fopen(h)
           /\ IF Rest(t) > 0 THEN Goto(t, "rest") /\ UNCHANGED wr ELSE GotoWith(t, "read", 0)
  <2>1. /\ DOMAIN data'[h] = {} /\ pos'[h] = 0 /\ fp' = h
        /\ \A g \in Files : g # h => data'[g] = data[g] /\ pos'[g] = pos[g]
    BY <1>5 DEF Fopen, IInv, TypeOK
  <2>2. DOMAIN data[h] = {}
    BY <1>2 DEF Empty
  <2>3. \A g \in Files : DOMAIN data'[g] = DOMAIN data[g]
    BY <2>1, <2>2
  <2>4. Fits(data'[h], 0) /\ Follows(data'[h], 0)
    BY <1>0, <2>1 DEF Fits, Follows
  <2>5. Seamless'
    <3> SUFFICES ASSUME NEW q \in Recs \ disturbed, NEW f \in 0 .. LastFile
                 PROVE  /\ Fits(data'[<<q, f>>], pos'[<<q, f>>])
                        /\ Follows(data'[<<q, f>>], pos'[<<q, f>>])
                        /\ f < LastFile => Joined(q, f)'
      BY <1>3 DEF Seamless
    <3>0. <<q, f>> \in Files /\ (f < LastFile => f + 1 \in 0 .. LastFile /\ <<q, f + 1>> \in Files)
      BY <1>0 DEF Files
    <3>1. Fits(data'[<<q, f>>], pos'[<<q, f>>]) /\ Follows(data'[<<q, f>>], pos'[<<q, f>>])
      BY <1>1, <2>1, <2>4, <3>0 DEF Seamless
    <3>2. ASSUME f < LastFile PROVE Joined(q, f)'
      <4>1. CASE <<q, f + 1>> = h
        BY <4>1, <2>1 DEF Joined, Empty
      <4>2. CASE <<q, f>> = h
        <5>1. Empty(<<q, f + 1>>)
          BY <4>2, <1>1, <3>0, <3>2, <1>0 DEF Tail
        <5> QED BY <5>1, <2>3, <3>0, <3>2 DEF Joined, Empty
      <4>3. CASE <<q, f + 1>> # h /\ <<q, f>> # h
        BY <4>3, <2>1, <3>0, <3>2, <1>1 DEF Seamless, Joined, Empty, Whole
      <4> QED BY <4>1, <4>2, <4>3
    <3> QED BY <3>1, <3>2
  <2>6. Tail'
    <3>1. \A f \in 0 .. LastFile : <<rec, f>> \in Files
      BY DEF Files
    <3> QED BY <1>1, <1>3, <2>1, <2>3, <3>1 DEF Tail, Empty
  <2>7. PICK v \in Int : v = next - len[t] + wr[t]
    BY <1>0
  <2>8. At(0, v)'
    <3>1. <<rec, no - 1>> \in Files /\ <<rec, no - 1>> # h
      BY <1>0, <1>2 DEF Files
    <3>2. Whole(<<rec, no - 1>>) /\ data[<<rec, no - 1>>][MaxSize - 1] = v - 1
      BY <1>0, <1>2, <2>7 DEF Reached
    <3> QED BY <1>3, <1>5, <2>1, <3>1, <3>2 DEF At, Reached, Empty, Whole
  <2>9. CASE Rest(t) > 0
    <3>1. pc' = [pc EXCEPT ![t] = "rest"] /\ UNCHANGED wr
      BY <1>5, <2>9 DEF Goto
    <3>2. wr[t] \in 1 .. len[t] - 1 /\ next' - len'[rec'] + wr'[rec'] = v
      BY <1>0, <1>2, <1>3, <2>7, <2>9, <3>1 DEF Rest
    <3>3. pc'[rec'] = "rest" /\ Empty(fp)' /\ cnt' = 0
      BY <1>0, <1>2, <1>3, <2>1, <3>1 DEF Empty
    <3>4. At(0, next - len[rec] + wr[rec])'
      BY <2>8, <3>2
    <3> QED BY <1>3, <2>5, <2>6, <3>1, <3>2, <3>3, <3>4 DEF Held
  <2>10. CASE ~(Rest(t) > 0)
    <3>1. pc' = [pc EXCEPT ![t] = "read"]
      BY <1>5, <2>10 DEF Goto, GotoWith
    <3>2. cnt' = 0 /\ v = next'
      BY <1>0, <1>2, <1>3, <2>7, <2>10 DEF Rest
    <3>3. Going'
      BY <1>0, <2>8, <3>2 DEF Going
    <3>4. pc'[rec'] = "read"
      BY <1>0, <1>3, <3>1
    <3> QED BY <2>5, <2>6, <3>3, <3>4 DEF Held
  <2> QED BY <2>9, <2>10
<1> QED BY <1>4, <1>5 DEF OpenNext

\* No step of a task breaks the files of an undisturbed recording.
LEMMA TaskSeamless ==
  ASSUME IInv, ~crash, NEW t \in Recs, TaskStep(t)
  PROVE  Seamless'
<1>0. TypeOK /\ Order /\ Seamless
  BY DEF IInv
<1>1. pc[t] \in FilePlaces => Alive(t) /\ kind[t] = "file"
  BY <1>0 DEF Order, Alive, FilePlaces
<1>2. CASE Write(t) \/ WriteRing(t) \/ WriteRest(t)
  <2>1. pc[t] \in FilePlaces
    BY <1>2 DEF Write, WriteRing, WriteRest, FilePlaces
  <2>2. CASE t = rec /\ rec \notin disturbed
    BY <1>1, <1>2, <2>1, <2>2, OwnWrites
  <2>3. CASE t # rec \/ rec \in disturbed
    BY <1>0, <1>2, <2>1, <2>3, ForeignOutput DEF Write, WriteRing, WriteRest
  <2> QED BY <2>2, <2>3
<1>3. CASE Rewind(t)
  <2>1. Alive(t) /\ kind[t] = "file"
    BY <1>1, <1>3 DEF Rewind, FilePlaces
  <2>2. CASE t = rec /\ rec \notin disturbed
    BY <1>3, <2>1, <2>2, OwnRewind
  <2>3. CASE t # rec \/ rec \in disturbed
    <3>1. UNCHANGED <<data, disturbed>>
      BY <1>3 DEF Rewind, call
    <3>2. CASE fp \notin opened
      BY <1>0, <1>3, <3>1, <3>2, QuietSeamless DEF Rewind
    <3>3. CASE fp \in opened
      <4>1. fp \in Files /\ fp[1] \in disturbed
        BY <1>0, <2>1, <2>3, <3>3, Foreign DEF TypeOK
      <4>2. \A g \in Files : g # fp => pos'[g] = pos[g]
        BY <1>0, <1>3, <3>3 DEF Rewind, TypeOK
      <4> QED BY <1>0, <3>1, <4>1, <4>2, ForeignSeamless
    <3> QED BY <3>2, <3>3
  <2> QED BY <2>2, <2>3
<1>4. CASE OpenNext(t)
  <2>1. Alive(t) /\ kind[t] = "file"
    BY <1>1, <1>4 DEF OpenNext, FilePlaces
  <2>2. CASE t = rec /\ rec \notin disturbed
    BY <1>4, <2>1, <2>2, OwnOpen
  <2>3. CASE t # rec \/ rec \in disturbed
    <3>1. rec \in disturbed /\ disturbed' = disturbed
      BY <1>0, <1>4, <2>1, <2>3, Others DEF OpenNext, call
    <3>2. \A g \in Files : g[1] # rec => data'[g] = data[g] /\ pos'[g] = pos[g]
      BY <1>0, <1>4 DEF OpenNext, Fopen, disk, TypeOK
    <3> QED BY <1>0, <3>1, <3>2, ForeignSeamless
  <2> QED BY <2>2, <2>3
<1>5. CASE UNCHANGED <<data, pos, disturbed>>
  BY <1>0, <1>5, QuietSeamless
<1>6. CASE \/ Head(t) \/ Poll(t) \/ Read(t) \/ Continue(t) \/ Roll(t) \/ Fail(t)
           \/ CloseFilters(t) \/ BecomeIdle(t) \/ Die(t) \/ Listen(t) \/ Top(t)
           \/ Accept(t) \/ Send(t)
  BY <1>5, <1>6 DEF Head, Poll, Read, Continue, Roll, Fail, CloseFilters, BecomeIdle, Die,
                    Listen, Top, Accept, Send, Fclose, call, disk
<1> QED BY <1>2, <1>3, <1>4, <1>6 DEF TaskStep

\* The task of the last recording begins another file.
LEMMA OwnRoll ==
  ASSUME IInv, rec \in Recs \ disturbed, kind[rec] = "file", ~crash, Roll(rec)
  PROVE  Held'
<1> DEFINE t == rec
           h == <<rec, no>>
<1>0. /\ MaxSize \in Nat \ {0} /\ LastFile \in Nat /\ no \in Nat
      /\ len[t] \in Nat /\ wr[t] \in Nat /\ next \in Nat
      /\ pc \in [Recs -> Places] /\ wr \in [Recs -> Nat]
  BY RecorderAssumption DEF IInv, TypeOK
<1>1. Held /\ Tail /\ Seamless
  BY DEF IInv, Progress, Held, Roll, Alive
<1>2. /\ cnt = MaxSize /\ At(cnt, next - len[t] + wr[t]) /\ mode = "normal"
      /\ wr[t] \in 1 .. len[t]
  BY <1>0, <1>1 DEF Roll, Held
<1>3. UNCHANGED <<rec, data, pos, len, next, stopped, mode>> /\ no' = no + 1 /\ cnt' = 0
  BY DEF Roll, Fclose, call
<1>4. Tail'
  <2>1. \A f \in 0 .. LastFile : f > no => Empty(<<rec, f>>)
    BY <1>1 DEF Tail
  <2>2. <<rec, no + 1>> \in Files => Empty(<<rec, no + 1>>)
    BY <1>0, <2>1 DEF Files
  <2> QED BY <1>0, <1>2, <1>3, <2>1, <2>2 DEF Tail, Empty
<1>5. CASE no + 1 > LastFile
  BY <1>0, <1>3, <1>4, <1>5 DEF Roll, GotoWith, Goto, Held
<1>6. CASE no + 1 <= LastFile
  <2>1. pc' = [pc EXCEPT ![t] = "open"] /\ UNCHANGED wr
    BY <1>0, <1>6 DEF Roll, Goto
  <2>2. PICK v \in Int : v = next - len[t] + wr[t]
    BY <1>0
  <2>3. h \in Files /\ pos[h] = MaxSize /\ data[h][MaxSize - 1] = v - 1
    BY <1>0, <1>2, <2>2 DEF At, Reached
  <2>4. Whole(h)
    BY <1>0, <1>1, <2>3 DEF Seamless, Fits, Whole, Files
  <2>5. no + 1 \in 0 .. LastFile /\ <<rec, no + 1>> \in Files
    BY <1>0, <1>6 DEF Files
  <2>6. DOMAIN data[<<rec, no + 1>>] = {} /\ pos[<<rec, no + 1>>] = 0
    <3>1. DOMAIN data[<<rec, no + 1>>] = {}
      BY <1>0, <1>1, <2>5 DEF Tail, Empty
    <3>2. PICK p \in Nat : p = pos[<<rec, no + 1>>]
      BY <2>5 DEF IInv, TypeOK
    <3>3. Fits(data[<<rec, no + 1>>], p)
      BY <1>1, <2>5, <3>2 DEF Seamless
    <3>4. 0 .. p - 1 \subseteq {}
      BY <3>1, <3>3 DEF Fits
    <3>5. p > 0 => 0 \in 0 .. p - 1
      BY <3>2
    <3>6. p = 0
      BY <3>2, <3>4, <3>5
    <3> QED BY <3>1, <3>2, <3>6
  <2>7. Reached(v)'
    <3>1. no' - 1 = no
      BY <1>0, <1>3
    <3> QED BY <1>3, <2>3, <2>4, <2>6, <3>1 DEF Reached, Whole, Empty
  <2>8. pc'[rec'] = "open" /\ Empty(<<rec, no>>)' /\ next' - len'[rec'] + wr'[rec'] = v
    BY <1>0, <1>3, <2>1, <2>2, <2>6 DEF Empty
  <2>9. Reached(next - len[rec] + wr[rec])'
    BY <2>7, <2>8
  <2> QED BY <1>0, <1>2, <1>3, <1>4, <2>1, <2>5, <2>8, <2>9 DEF Held
<1> QED BY <1>0, <1>5, <1>6

\* What the task holds depends on the following variables only.
LEMMA QuietHeld ==
  ASSUME Held, UNCHANGED <<fp, no, cnt, pc, len, wr, rec, next, data, pos>>,
         mode' = "timeshift" => mode = "timeshift", stopped' \in {stopped, TRUE}
  PROVE  Held'
<1>1. Tail'
  BY DEF Held, Tail, Empty
<1>2. \A u : Reached(u) => Reached(u)'
  BY DEF Reached, Empty, Whole
<1>3. \A c, u : At(c, u) => At(c, u)'
  BY <1>2 DEF At
<1>4. Going => Going'
  BY <1>3 DEF Going
<1>5. (Whole(fp) => Whole(fp)') /\ (Empty(fp) => Empty(fp)')
  BY DEF Whole, Empty
<1>6. Empty(<<rec, no>>) => Empty(<<rec, no>>)'
  BY DEF Empty
<1> QED BY <1>1, <1>2, <1>3, <1>4, <1>5, <1>6 DEF Held

\* A step of a task keeps what the task of the last recording holds.
LEMMA TaskProgress ==
  ASSUME IInv, ~crash, NEW t \in Recs, TaskStep(t)
  PROVE  Progress'
<1>0. /\ TypeOK /\ Order /\ MaxLen \in Nat /\ MaxSize \in Nat \ {0}
      /\ pc \in [Recs -> Places] /\ len \in [Recs -> 0 .. MaxLen] /\ wr \in [Recs -> Nat]
      /\ next \in Nat
  BY RecorderAssumption DEF IInv, TypeOK
<1>1. UNCHANGED <<rec, kind, disturbed, ui>> /\ Alive(t)
  BY DEF TaskStep, Head, Poll, Read, Write, Continue, Rewind, WriteRing, Roll, OpenNext,
         WriteRest, Fail, CloseFilters, BecomeIdle, Die, Listen, Top, Accept, Send, Output,
         call, Alive
<1> SUFFICES ASSUME rec \in Recs, rec \notin disturbed, kind[rec] = "file", ~crash'
             PROVE  Fresh' /\ (Alive(rec)' => Held')
  BY <1>1 DEF Progress
<1>2. t = rec
  BY <1>0, <1>1, Others
<1>3. Held /\ Tail /\ Alive(rec)
  BY <1>1, <1>2 DEF IInv, Progress, Held
<1>4. Fresh'
  BY <1>0, <1>1, <1>3 DEF Order, Alive, Fresh
<1>5. ASSUME UNCHANGED <<no, mode, data, pos>> PROVE Tail'
  BY <1>1, <1>3, <1>5 DEF Tail, Empty
<1>6. ASSUME UNCHANGED <<fp, no, data, pos>> PROVE \A c, u : At(c, u) => At(c, u)'
  BY <1>1, <1>6 DEF At, Reached, Empty, Whole
<1>7. ASSUME UNCHANGED <<fp, no, cnt, next, data, pos>> PROVE Going => Going'
  BY <1>6, <1>7 DEF Going
<1>8. pc[rec] \notin NetPlaces
  BY <1>0 DEF Order
<1>9. CASE Head(rec)
  <2>1. UNCHANGED <<fp, no, cnt, stopped, next, mode, data, pos>>
    BY <1>9 DEF Head, object, disk
  <2>2. pc[rec] = "wait" /\ pc'[rec'] = IF ~stopped THEN "poll" ELSE "done"
    BY <1>0, <1>1, <1>9 DEF Head, Goto
  <2> QED BY <1>3, <1>4, <1>5, <1>7, <2>1, <2>2 DEF Held, Alive
<1>10. CASE Poll(rec)
  <2>1. UNCHANGED <<fp, no, cnt, stopped, next, mode, data, pos>>
    BY <1>10 DEF Poll, object, disk
  <2>2. pc[rec] = "poll" /\ pc'[rec'] \in {"wait", "read"}
    BY <1>0, <1>1, <1>10 DEF Poll, Goto
  <2> QED BY <1>3, <1>4, <1>5, <1>7, <2>1, <2>2 DEF Held
<1>11. CASE Read(rec)
  <2>1. UNCHANGED <<fp, no, cnt, stopped, mode, data, pos>> /\ pc[rec] = "read"
    BY <1>11 DEF Read, object, disk
  <2>2. pc'[rec'] = "write"
    BY <1>0, <1>1, <1>11 DEF Read, Goto
  <2>3. PICK n \in 1 .. len[rec] : len' = [len EXCEPT ![rec] = n] /\ next' = next + n
    BY <1>11 DEF Read
  <2>4. len'[rec'] = n /\ next' - n = next
    BY <1>0, <1>1, <2>3
  <2>5. cnt \in 0 .. MaxSize - 1 /\ At(cnt, next)
    BY <1>3, <2>1 DEF Held, Going
  <2>6. PICK c, v : c = cnt /\ v = next
    OBVIOUS
  <2>7. At(c, v)'
    BY <1>6, <2>1, <2>5, <2>6
  <2>8. c = cnt' /\ v = next' - len'[rec']
    BY <2>1, <2>4, <2>6
  <2>9. At(cnt, next - len[rec])'
    BY <2>7, <2>8
  <2> QED BY <1>3, <1>4, <1>5, <2>1, <2>2, <2>4, <2>5, <2>9 DEF Held
<1>12. CASE Write(rec) \/ WriteRing(rec) \/ WriteRest(rec)
  BY <1>4, <1>12, OwnWrites
<1>13. CASE Continue(rec)
  <2>1. UNCHANGED <<fp, no, cnt, next, stopped, mode, data, pos>>
    BY <1>13 DEF Continue, object, disk
  <2>2. pc[rec] = "after" /\ cnt < MaxSize /\ pc'[rec'] = "read"
    BY <1>0, <1>1, <1>13 DEF Continue, Goto, GotoWith
  <2>3. cnt \in 0 .. MaxSize /\ At(cnt, next - len[rec] + wr[rec]) /\ wr[rec] = len[rec]
    BY <1>3, <2>2 DEF Held
  <2>4. next - len[rec] + wr[rec] = next /\ cnt \in 0 .. MaxSize - 1
    BY <1>0, <2>2, <2>3
  <2>5. Going
    BY <2>3, <2>4 DEF Going
  <2> QED BY <1>3, <1>4, <1>5, <1>7, <2>1, <2>2, <2>5 DEF Held
<1>14. CASE Rewind(rec) \/ OpenNext(rec) \/ Roll(rec)
  BY <1>4, <1>14, OwnRewind, OwnOpen, OwnRoll
<1>15. CASE Fail(rec)
  <2>1. stopped' = TRUE /\ pc'[rec'] = "closing" /\ UNCHANGED <<no, mode, data, pos>>
    BY <1>0, <1>1, <1>15 DEF Fail, Fclose, Goto
  <2> QED BY <1>4, <1>5, <2>1 DEF Held
<1>16. CASE CloseFilters(rec) \/ BecomeIdle(rec)
  <2>1. /\ stopped /\ stopped' = stopped /\ UNCHANGED <<no, mode, data, pos>>
        /\ pc'[rec'] \in {"idle", "wait"}
    BY <1>0, <1>1, <1>3, <1>16 DEF CloseFilters, BecomeIdle, Goto, object, disk, Held
  <2> QED BY <1>4, <1>5, <2>1 DEF Held
<1>17. CASE Die(rec)
  <2>1. pc'[rec'] = "done"
    BY <1>0, <1>1, <1>17 DEF Die, Goto, GotoWith
  <2> QED BY <1>4, <1>1, <2>1 DEF Alive
<1>18. CASE Listen(rec) \/ Top(rec) \/ Accept(rec)
  BY <1>8, <1>18 DEF Listen, Top, Accept, NetPlaces
<1>19. CASE Send(rec)
  BY <1>8, <1>19 DEF Send, NetPlaces
<1> QED BY <1>2, <1>9, <1>10, <1>11, <1>12, <1>13, <1>14, <1>15, <1>16, <1>17, <1>18, <1>19
        DEF TaskStep

-----------------------------------------------------------------------------
(* The calls of the user interface. *)

\* The rest of a call, or its beginning.
UserStep ==
  \/ CallStep \/ (\E k \in {"file", "net"} : Begin(k)) \/ Halt
  \/ (\E m \in {"normal", "timeshift"} : SetMode(m))

LEMMA CallSeamless ==
  ASSUME IInv, UserStep
  PROVE  Seamless'
<1>0. TypeOK /\ Order /\ Seamless /\ LastFile \in Nat /\ rec \in Nat
  BY RecorderAssumption DEF IInv, TypeOK
<1>1. disturbed \subseteq disturbed'
  BY DEF UserStep, CallStep, Begin, NoService, Prepare, Reset, Create, Running, Close,
         Filters, Idled, Halt, SetMode
<1>2. CASE UNCHANGED <<data, pos>>
  BY <1>0, <1>1, <1>2, QuietSeamless
<1>3. CASE Prepare /\ Fopen(<<rec + 1, 0>>)
  <2> DEFINE h == <<rec + 1, 0>>
  <2>1. h \in Files
    <3>1. rec < MaxRecs /\ MaxRecs \in Nat
      BY <1>0, <1>3, RecorderAssumption DEF Prepare, Order
    <3> QED BY <1>0, <3>1 DEF Files, Recs
  <2>2. /\ DOMAIN data'[h] = {} /\ pos'[h] = 0
        /\ \A g \in Files : g # h => data'[g] = data[g] /\ pos'[g] = pos[g]
    BY <1>0, <1>3, <2>1 DEF Fopen, TypeOK
  <2>3. ASSUME NEW q \in Recs \ disturbed, NEW f \in 0 .. LastFile
        PROVE  /\ Fits(data'[<<q, f>>], pos'[<<q, f>>]) /\ Follows(data'[<<q, f>>], pos'[<<q, f>>])
               /\ f < LastFile => Joined(q, f)'
    <3>1. <<q, f>> \in Files /\ (f < LastFile => f + 1 \in 0 .. LastFile /\ <<q, f + 1>> \in Files)
      BY <1>0 DEF Files
    <3>2. CASE q = rec + 1
      <4>1. f < LastFile => Empty(<<q, f + 1>>)
        BY <1>0, <3>1, <3>2 DEF Order
      <4>2. f < LastFile => Joined(q, f)'
        BY <1>0, <2>2, <3>1, <4>1 DEF Joined, Empty
      <4>3. CASE f = 0
        BY <2>2, <3>2, <4>2, <4>3, RecorderAssumption DEF Fits, Follows
      <4>4. CASE f # 0
        BY <1>0, <2>2, <3>1, <4>2, <4>4 DEF Seamless
      <4> QED BY <4>3, <4>4
    <3>3. CASE q # rec + 1
      BY <1>0, <2>2, <3>1, <3>3 DEF Seamless, Joined, Empty, Whole
    <3> QED BY <3>2, <3>3
  <2> QED BY <1>1, <2>3 DEF Seamless
<1>4. UNCHANGED <<data, pos>> \/ (Prepare /\ Fopen(<<rec + 1, 0>>))
  BY DEF UserStep, CallStep, Begin, NoService, Prepare, Reset, Create, Running, Close,
         Filters, Idled, Halt, SetMode, Fclose, disk
<1> QED BY <1>2, <1>3, <1>4

LEMMA CallProgress ==
  ASSUME IInv, ~crash, UserStep
  PROVE  Progress'
<1> SUFFICES ASSUME rec' \in Recs, rec' \notin disturbed', kind'[rec'] = "file"
             PROVE  Fresh' /\ (Alive(rec)' => Held')
  BY DEF Progress
<1>0. /\ TypeOK /\ Order /\ MaxSize \in Nat \ {0} /\ rec \in Nat /\ LastFile \in Nat
      /\ pc \in [Recs -> Places] /\ rec < rec + 1 /\ MaxRecs \in Nat
  BY RecorderAssumption DEF IInv, TypeOK
<1>1. disturbed \subseteq disturbed'
  BY DEF UserStep, CallStep, Begin, NoService, Prepare, Reset, Create, Running, Close,
         Filters, Idled, Halt, SetMode
<1>2. CASE rec' = rec /\ kind'[rec] = kind[rec]
  <2>0. Fresh /\ (Alive(rec) => Held)
    BY <1>1, <1>2 DEF IInv, Progress
  <2>1. CASE /\ UNCHANGED <<fp, no, cnt, pc, len, wr, next, data, pos>>
             /\ mode' = "timeshift" => mode = "timeshift"
             /\ stopped' \in {stopped, TRUE} /\ ui' \notin {"reset", "create"}
    BY <1>2, <2>0, <2>1, QuietHeld DEF Fresh, Alive
  <2>2. CASE \/ \E k \in {"file", "net"} : Begin(k)
             \/ NoService \/ Running \/ Halt \/ Close \/ Filters \/ Idled
    BY <2>1, <2>2 DEF Begin, NoService, Running, Halt, Close, Filters, Idled, Lock, Fclose,
                      object, task, call, disk
  <2>3. CASE \E m \in {"normal", "timeshift"} : SetMode(m)
    <3>1. ui' \notin {"reset", "create"} /\ UNCHANGED <<fp, no, cnt, pc, len, wr, stopped, next, data, pos>>
      BY <2>3 DEF SetMode, object, task, disk
    <3>2. CASE mode' = "timeshift"
      <4>1. disturbed' = disturbed \cup Interferes({rec})
        BY <2>3, <3>2 DEF SetMode
      <4>2. ~Alive(rec)
        BY <1>2, <4>1 DEF Interferes
      <4> QED BY <1>2, <3>1, <4>2 DEF Fresh, Alive
    <3>3. CASE mode' # "timeshift"
      BY <2>1, <3>1, <3>3
    <3> QED BY <3>2, <3>3
  <2>4. CASE Prepare
    <3>1. /\ ui' = "menu" /\ pc' = pc
          /\ disturbed' = disturbed \cup Interferes({rec})
      BY <1>0, <1>2, <2>4 DEF Prepare, task
    <3>2. ~Alive(rec)
      BY <1>2, <3>1 DEF Interferes
    <3> QED BY <1>2, <3>1, <3>2 DEF Fresh, Alive
  <2>5. CASE Reset
    <3>1. /\ ui = "reset" /\ stopped' = FALSE /\ cnt' = 0 /\ no' = 0
          /\ UNCHANGED <<fp, data, pos, pc>>
      BY <2>5 DEF Reset, task, disk
    <3>2. pc[rec] = "none"
      BY <1>0, <3>1 DEF Order
    <3> QED BY <1>2, <2>0, <3>1, <3>2 DEF Fresh, Alive, Empty
  <2>6. CASE Create
    <3>1. /\ UNCHANGED <<fp, no, cnt, stopped, next, data, pos, mode>> /\ ui' = "running"
          /\ pc'[rec'] = "wait"
      BY <1>0, <1>2, <2>6 DEF Create, Goto, object, disk
    <3>2. /\ fp = <<rec, 0>> /\ cnt = 0 /\ no = 0 /\ ~stopped
          /\ \A f \in 0 .. LastFile : Empty(<<rec, f>>) /\ pos[<<rec, f>>] = 0
      BY <2>0, <2>6 DEF Create, Fresh
    <3>3. <<rec, 0>> \in Files /\ 0 \in 0 .. LastFile
      BY <1>0, <1>2 DEF Files
    <3>4. Tail'
      BY <1>2, <3>1, <3>2, <3>3 DEF Tail, Empty
    <3>5. At(0, next)'
      BY <1>2, <3>1, <3>2, <3>3 DEF At, Reached, Empty
    <3>6. Going'
      BY <1>0, <3>1, <3>2, <3>5 DEF Going
    <3> QED BY <3>1, <3>4, <3>6 DEF Held, Fresh
  <2> QED BY <2>2, <2>3, <2>4, <2>5, <2>6 DEF UserStep, CallStep
<1>3. CASE Prepare /\ rec' = rec + 1
  <2>1. /\ ui' = "reset" /\ UNCHANGED pc /\ Fopen(<<rec + 1, 0>>)
    BY <1>0, <1>3 DEF Prepare, task
  <2>2. pc'[rec'] = "none"
    BY <1>0, <1>3, <2>1 DEF Order
  <2>3. ASSUME NEW f \in 0 .. LastFile
        PROVE  DOMAIN data'[<<rec + 1, f>>] = {} /\ pos'[<<rec + 1, f>>] = 0
    <3>1. <<rec + 1, f>> \in Files /\ <<rec + 1, 0>> \in Files
      BY <1>0, <1>3 DEF Files
    <3>2. Empty(<<rec + 1, f>>) /\ pos[<<rec + 1, f>>] = 0
      BY <1>0, <3>1 DEF Order
    <3> QED BY <1>0, <2>1, <3>1, <3>2 DEF Fopen, Empty, TypeOK
  <2>4. Fresh'
    BY <1>3, <2>1, <2>3 DEF Fresh, Fopen, Empty
  <2> QED BY <2>2, <2>4 DEF Alive
<1>4. (rec' = rec /\ kind'[rec] = kind[rec]) \/ (Prepare /\ rec' = rec + 1)
  <2>1. CASE \E k \in {"file", "net"} : Begin(k)
    BY <1>0, <2>1 DEF Begin, TypeOK
  <2>2. CASE ~ \E k \in {"file", "net"} : Begin(k)
    BY <2>2 DEF UserStep, CallStep, NoService, Prepare, Reset, Create, Running, Close,
         Filters, Idled, Halt, SetMode
  <2> QED BY <2>1, <2>2
<1> QED BY <1>2, <1>3, <1>4

-----------------------------------------------------------------------------

LEMMA StepInv == IInv /\ [Next]_vars => IInv'
<1> SUFFICES ASSUME IInv, [Next]_vars PROVE IInv'
  OBVIOUS
<1>1. CASE UNCHANGED vars
  <2> USE <1>1 DEF vars, object, task, call, disk
  <2>1. TypeOK'
    BY DEF IInv, TypeOK
  <2>2. Order'
    BY DEF IInv, Order, Alive, Empty
  <2>3. Seamless'
    BY QuietSeamless DEF IInv
  <2>4. Progress'
    BY QuietHeld DEF IInv, Progress, Fresh, Alive, Empty
  <2> QED BY <2>1, <2>2, <2>3, <2>4 DEF IInv
<1>2. ASSUME ~crash, NEW t \in Recs, TaskStep(t) PROVE IInv'
  BY <1>2, TaskType, TaskOrder, TaskSeamless, TaskProgress DEF IInv
<1>3. ASSUME ~crash, UserStep PROVE IInv'
  BY <1>3, CallType, CallOrder, CallSeamless, CallProgress DEF IInv, UserStep
<1> QED BY <1>1, <1>2, <1>3 DEF Next, UserStep

LEMMA RecorderInv == Spec => []IInv
BY InitInv, StepInv, PTL DEF Spec

\* The types of the recorder's variables, for every number and size of recordings.
THEOREM RecorderType == Spec => []TypeOK
<1>1. IInv => TypeOK
  BY DEF IInv
<1> QED BY <1>1, RecorderInv, PTL

\* Whatever fails and however the calls and the task interleave, the files of a
\* recording whose object no call changed under its task hold the stream in order and
\* without a gap: record_task's splitting of a buffer between two files, its rewinding
\* of a time shift file, and the short writes at which it stops.
THEOREM RecordingSeamless == Spec => []Seamless
<1>1. IInv => Seamless
  BY DEF IInv
<1> QED BY <1>1, RecorderInv, PTL

\* A recording that is still going on has written every unit that it has read from
\* the demux, up to the last one.
THEOREM RecordingComplete == Spec => []Complete
<1>1. IInv => Complete
  <2> SUFFICES ASSUME IInv, rec > 0, rec \notin disturbed, kind[rec] = "file", ~crash,
                      pc[rec] \in {"wait", "poll", "read"}, ~stopped
               PROVE  fp = <<rec, no>> /\ Reached(next)
    BY DEF Complete
  <2>1. rec \in Recs
    BY RecorderAssumption DEF IInv, TypeOK, Recs
  <2>2. Held
    BY <2>1 DEF IInv, Progress, Alive
  <2> QED BY <2>2 DEF Held, Going, At
<1> QED BY <1>1, RecorderInv, PTL

-----------------------------------------------------------------------------
(* What is open.  Where no call disturbs a task, only the FILE last opened is *)
(* open, and whoever closes it keeps it closed: the user interface once it    *)
(* has stopped a recording, the task in stop_record.                          *)

FilesOK ==
  /\ opened \subseteq {fp} /\ (fp = NULL => opened = {})
  /\ filter => secft
  /\ ui = "service" => status = "idle"

\* What the tasks rely on.
TasksOK ==
  \A t \in Recs :
    /\ pc[t] \in {"write", "after", "ring", "rest", "open"} => fp # NULL
    /\ pc[t] \in {"open", "closing", "idle"} => opened = {}
    /\ pc[t] = "idle" => ~filter

\* A recording is over: its file is closed, and then its filters.
Over == ui \in {"filters", "idle"} \/ (status = "idle" /\ ui \in {"menu", "service", "blocked"})

OverOK ==
  Over => /\ opened = {}
          /\ ui # "filters" => ~filter
          /\ \A t \in Recs : pc[t] # "open"

OpenInv == disturbed = {} /\ ~crash => FilesOK /\ TasksOK /\ OverOK

LEMMA OpenInit == Init => OpenInv
BY DEF Init, OpenInv, FilesOK, TasksOK, OverOK

\* The only task is that of the last recording.
LEMMA OnlyTask ==
  ASSUME TypeOK, Order, disturbed = {}, NEW t \in Recs, Alive(t)
  PROVE  t = rec
BY Others DEF TypeOK, Order, Alive, Recs

\* A task at a place of no consequence, which opens and closes nothing.
LEMMA QuietOpen ==
  ASSUME TypeOK, FilesOK, TasksOK, OverOK, NEW t \in Recs, NEW w \in Places,
         pc' = [pc EXCEPT ![t] = w],
         w \notin {"write", "after", "ring", "rest", "open", "closing", "idle"}
           \/ (fp # NULL /\ w \in {"write", "after", "ring", "rest"}),
         UNCHANGED <<fp, opened, filter, secft, status, ui>>
  PROVE  FilesOK' /\ TasksOK' /\ OverOK'
<1>1. pc'[t] = w /\ \A r \in Recs : r # t => pc'[r] = pc[r]
  BY DEF TypeOK
<1>2. FilesOK'
  BY DEF FilesOK
<1>3. TasksOK'
  BY <1>1 DEF TasksOK
<1>4. OverOK'
  BY <1>1 DEF OverOK, Over
<1> QED BY <1>2, <1>3, <1>4

\* A write that does not meet a closed file.
LEMMA OutputOpen ==
  ASSUME TypeOK, FilesOK, TasksOK, OverOK, NEW t \in Recs, NEW u, NEW want, NEW c,
         NEW ok \in {"after", "read"}, Output(t, u, want, ok, c), ~crash',
         pc[t] \in {"write", "ring", "rest"}
  PROVE  FilesOK' /\ TasksOK' /\ OverOK'
<1>1. ~(fp \notin opened \/ want < 0)
  BY DEF Output
<1>2. PICK n \in 0 .. want :
        /\ Fwrite(Unit(t, u), n)
        /\ Goto(t, IF n = want THEN ok ELSE "fail")
  BY <1>1 DEF Output, GotoWith
<1>3. PICK w \in {"after", "read", "fail"} : pc' = [pc EXCEPT ![t] = w]
  BY <1>2 DEF Goto
<1>4. fp # NULL
  BY DEF TasksOK
<1>5. UNCHANGED <<fp, opened, filter, secft, status, ui>>
  BY <1>2 DEF Output, Fwrite, call
<1> QED BY <1>3, <1>4, <1>5, QuietOpen DEF Places

LEMMA TaskOpen ==
  ASSUME IInv, OpenInv, ~crash, NEW t \in Recs, TaskStep(t)
  PROVE  OpenInv'
<1>0. /\ TypeOK /\ Order /\ pc \in [Recs -> Places] /\ Alive(t)
      /\ UNCHANGED <<rec, kind, disturbed, ui>>
  BY DEF IInv, TypeOK, TaskStep, Head, Poll, Read, Write, Continue, Rewind, WriteRing, Roll,
         OpenNext, WriteRest, Fail, CloseFilters, BecomeIdle, Die, Listen, Top, Accept, Send,
         Output, call, Alive
<1> SUFFICES ASSUME disturbed = {}, ~crash' PROVE FilesOK' /\ TasksOK' /\ OverOK'
  BY <1>0 DEF OpenInv
<1>1. FilesOK /\ TasksOK /\ OverOK
  BY DEF OpenInv
<1>2. t = rec /\ \A r \in Recs : Alive(r) => r = t
  BY <1>0, OnlyTask
<1> DEFINE Still == UNCHANGED <<fp, opened, filter, secft, status, ui>>
<1>3. CASE Head(t)
  <2>1. PICK w \in {"poll", "done", "pause"} : pc' = [pc EXCEPT ![t] = w]
    BY <1>3 DEF Head, Goto
  <2> QED BY <1>0, <1>1, <1>3, <2>1, QuietOpen DEF Head, object, disk, Places
<1>4. CASE Poll(t)
  <2>1. PICK w \in {"wait", "read"} : pc' = [pc EXCEPT ![t] = w]
    BY <1>4 DEF Poll, Goto
  <2> QED BY <1>0, <1>1, <1>4, <2>1, QuietOpen DEF Poll, object, disk, Places
<1>5. CASE Read(t)
  <2>1. CASE kind[t] = "file"
    <3>1. Held
      BY <1>0, <1>2, <2>1 DEF IInv, Progress
    <3>2. fp # NULL
      BY <1>2, <1>5, <3>1 DEF Read, Held, Going, At, Files, NULL, Recs
    <3>3. pc' = [pc EXCEPT ![t] = "write"]
      BY <1>5, <2>1 DEF Read, Goto
    <3> QED BY <1>0, <1>1, <1>5, <3>2, <3>3, QuietOpen DEF Read, object, disk, Places
  <2>2. CASE kind[t] # "file"
    <3>1. pc' = [pc EXCEPT ![t] = "send"]
      BY <1>5, <2>2 DEF Read, Goto
    <3> QED BY <1>0, <1>1, <1>5, <3>1, QuietOpen DEF Read, object, disk, Places
  <2> QED BY <2>1, <2>2
<1>6. CASE Write(t) \/ WriteRing(t) \/ WriteRest(t)
  BY <1>0, <1>1, <1>6, OutputOpen DEF Write, WriteRing, WriteRest
<1>7. CASE Continue(t)
  BY <1>0, <1>1, <1>7, QuietOpen DEF Continue, Goto, GotoWith, object, disk, Places
<1>8. CASE Rewind(t)
  <2>1. PICK w \in {"ring", "read"} : pc' = [pc EXCEPT ![t] = w]
    BY <1>8 DEF Rewind, Goto, GotoWith
  <2>2. fp # NULL
    BY <1>1, <1>8 DEF Rewind, TasksOK
  <2> QED BY <1>0, <1>1, <1>8, <2>1, <2>2, QuietOpen DEF Rewind, Places
<1>9. CASE Roll(t)
  <2>1. PICK w \in {"fail", "open"} : pc' = [pc EXCEPT ![t] = w]
    BY <1>9 DEF Roll, Goto, GotoWith
  <2>2. fp # NULL /\ fp \in opened
    BY <1>1, <1>9 DEF Roll, Fclose, TasksOK
  <2>3. opened' = {} /\ UNCHANGED <<fp, filter, secft, status>>
    BY <1>1, <1>9 DEF Roll, Fclose, FilesOK
  <2>4. pc'[t] = w /\ \A r \in Recs : r # t => pc'[r] = pc[r]
    BY <1>0, <2>1
  <2>5. ~Over /\ ~Over'
    BY <1>0, <1>1, <2>2, <2>3 DEF OverOK, Over
  <2>6. FilesOK'
    BY <1>0, <1>1, <2>3 DEF FilesOK
  <2>7. TasksOK'
    BY <1>1, <2>1, <2>2, <2>3, <2>4 DEF TasksOK
  <2> QED BY <2>5, <2>6, <2>7 DEF OverOK
<1>10. CASE OpenNext(t)
  <2>1. PICK w \in {"rest", "read", "fail"} : pc' = [pc EXCEPT ![t] = w]
    BY <1>10 DEF OpenNext, Goto, GotoWith
  <2>2. opened = {} /\ ~Over /\ UNCHANGED <<filter, secft, status>>
    BY <1>1, <1>10 DEF OpenNext, TasksOK, OverOK
  <2>3. ~Over'
    BY <1>0, <2>2 DEF Over
  <2>4. pc'[t] = w /\ \A r \in Recs : r # t => pc'[r] = pc[r]
    BY <1>0, <2>1
  <2>5. \A r \in Recs : r # t => pc[r] \in {"none", "done"}
    BY <1>2 DEF Alive
  <2>6. CASE Fopen(<<rec, no>>) /\ <<rec, no>> \in Files
    <3>1. fp' = <<rec, no>> /\ fp' # NULL /\ opened' = {fp'}
      BY <2>2, <2>6 DEF Fopen, Files, Recs, NULL
    <3> QED BY <1>0, <1>1, <2>1, <2>2, <2>3, <2>4, <2>5, <3>1
            DEF FilesOK, TasksOK, OverOK
  <2>7. CASE fp' = NULL /\ UNCHANGED disk /\ w = "fail"
    BY <1>0, <1>1, <2>1, <2>2, <2>3, <2>4, <2>5, <2>7
       DEF FilesOK, TasksOK, OverOK, disk
  <2>8. (Fopen(<<rec, no>>) /\ <<rec, no>> \in Files)
          \/ (fp' = NULL /\ UNCHANGED disk /\ w = "fail")
    BY <1>0, <1>10, <2>4 DEF OpenNext, Goto, GotoWith
  <2> QED BY <2>6, <2>7, <2>8
<1>11. CASE Fail(t)
  <2>1. pc' = [pc EXCEPT ![t] = "closing"] /\ UNCHANGED <<fp, filter, secft, status>>
    BY <1>11 DEF Fail, Goto
  <2>2. opened' = {}
    BY <1>1, <1>11 DEF Fail, Fclose, FilesOK
  <2>3. pc'[t] = "closing" /\ \A r \in Recs : r # t => pc'[r] = pc[r]
    BY <1>0, <2>1
  <2> QED BY <1>0, <1>1, <2>1, <2>2, <2>3 DEF FilesOK, TasksOK, OverOK, Over
<1>12. CASE CloseFilters(t)
  <2>1. /\ pc' = [pc EXCEPT ![t] = "idle"] /\ pc[t] = "closing" /\ filter' = FALSE
        /\ UNCHANGED <<fp, opened, secft, status>>
    BY <1>1, <1>12 DEF CloseFilters, Goto, FilesOK, object, disk
  <2>2. pc'[t] = "idle" /\ \A r \in Recs : r # t => pc'[r] = pc[r]
    BY <1>0, <2>1
  <2> QED BY <1>0, <1>1, <2>1, <2>2 DEF FilesOK, TasksOK, OverOK, Over
<1>13. CASE BecomeIdle(t)
  <2>1. /\ pc' = [pc EXCEPT ![t] = "wait"] /\ pc[t] = "idle" /\ status' = "idle"
        /\ UNCHANGED <<fp, opened, secft, filter>>
    BY <1>13 DEF BecomeIdle, Goto, disk
  <2>2. pc'[t] = "wait" /\ \A r \in Recs : r # t => pc'[r] \in {"none", "done"}
    BY <1>0, <1>2, <2>1 DEF Alive
  <2>3. opened = {} /\ ~filter
    BY <1>1, <2>1 DEF TasksOK
  <2> QED BY <1>0, <1>1, <2>1, <2>2, <2>3 DEF FilesOK, TasksOK, OverOK
<1>14. CASE Die(t)
  BY <1>0, <1>1, <1>14, QuietOpen DEF Die, Goto, GotoWith, object, disk, Places
<1>15. CASE Listen(t)
  <2>1. PICK w \in {"top", "done"} : pc' = [pc EXCEPT ![t] = w]
    BY <1>15 DEF Listen, Goto
  <2> QED BY <1>0, <1>1, <1>15, <2>1, QuietOpen DEF Listen, object, disk, Places
<1>16. CASE Accept(t)
  <2>1. PICK w \in {"wait", "top"} : pc' = [pc EXCEPT ![t] = w]
    BY <1>16 DEF Accept, Goto
  <2> QED BY <1>0, <1>1, <1>16, <2>1, QuietOpen DEF Accept, object, disk, Places
<1>17. CASE Top(t)
  BY <1>0, <1>1, <1>17, QuietOpen DEF Top, Goto, disk, Places
<1>18. CASE Send(t)
  BY <1>0, <1>1, <1>18, QuietOpen DEF Send, Goto, disk, Places
<1> QED BY <1>3, <1>4, <1>5, <1>6, <1>7, <1>8, <1>9, <1>10, <1>11, <1>12, <1>13, <1>14,
           <1>15, <1>16, <1>17, <1>18 DEF TaskStep

\* A call opens a FILE only where nothing is open and no task lives.
LEMMA CallOpen ==
  ASSUME IInv, OpenInv, ~crash, UserStep
  PROVE  OpenInv'
<1>0. TypeOK /\ Order /\ pc \in [Recs -> Places] /\ disturbed \subseteq disturbed'
  BY DEF IInv, TypeOK, UserStep, CallStep, Begin, NoService, Prepare, Reset, Create, Running,
         Close, Filters, Idled, Halt, SetMode
<1> SUFFICES ASSUME disturbed' = {}, ~crash' PROVE FilesOK' /\ TasksOK' /\ OverOK'
  BY DEF OpenInv
<1>1. FilesOK /\ TasksOK /\ OverOK /\ disturbed = {}
  BY <1>0 DEF OpenInv
<1>2. status \in {"idle", "run"}
  BY <1>0 DEF TypeOK
<1>3. ASSUME UNCHANGED <<fp, opened, filter, secft, pc>>,
             ui' = "service" => status' = "idle",
             Over' => Over /\ (ui = "filters" => ui' = "filters")
      PROVE  FilesOK' /\ TasksOK' /\ OverOK'
  BY <1>1, <1>3 DEF FilesOK, TasksOK, OverOK
<1>4. CASE \E k \in {"file", "net"} : Begin(k)
  BY <1>2, <1>3, <1>4 DEF Begin, Lock, Over, object, task, disk
<1>5. CASE NoService
  BY <1>1, <1>3, <1>5 DEF NoService, FilesOK, Over, object, task, disk
<1>6. CASE Prepare
  <2>1. status = "idle" /\ ui = "service" /\ status' = status /\ pc' = pc
    BY <1>1, <1>6 DEF Prepare, FilesOK, task
  <2>2. opened = {} /\ ~filter /\ \A r \in Recs : pc[r] # "open"
    BY <1>1, <2>1 DEF OverOK, Over
  <2>3. \A r \in Recs : ~Alive(r)
    <3>1. rec < MaxRecs /\ rec \in Nat /\ MaxRecs \in Nat
      BY <1>0, <1>6, RecorderAssumption DEF Order, TypeOK, Prepare
    <3>2. ASSUME NEW r \in Recs, Alive(r) PROVE FALSE
      <4>1. r = rec
        BY <1>0, <1>1, <3>2, OnlyTask
      <4>2. rec \in disturbed'
        BY <1>6, <3>2, <4>1 DEF Prepare, Interferes
      <4> QED BY <4>2
    <3> QED BY <3>2
  <2>4. TasksOK'
    BY <2>1, <2>3 DEF TasksOK, Alive
  <2>5. CASE ui' = "menu"
    <3>1. fp' = NULL /\ UNCHANGED <<secft, filter, opened>>
      BY <1>6, <2>5 DEF Prepare, disk
    <3> QED BY <1>1, <2>1, <2>2, <2>4, <2>5, <3>1 DEF FilesOK, OverOK
  <2>6. CASE ui' = "reset"
    <3>1. secft' = TRUE
      BY <1>6, <2>2, <2>6 DEF Prepare
    <3>2. (opened' = {fp'} /\ fp' # NULL) \/ opened' = {}
      <4>1. rec \in Nat
        BY <1>0 DEF TypeOK
      <4> QED BY <1>6, <2>2, <2>6, <4>1 DEF Prepare, Fopen, disk, NULL
    <3>3. opened' \subseteq {fp'} /\ (fp' = NULL => opened' = {})
      BY <3>2
    <3> QED BY <2>4, <2>6, <3>1, <3>3 DEF FilesOK, OverOK, Over
  <2> QED BY <1>6, <2>5, <2>6 DEF Prepare
<1>7. CASE Reset
  BY <1>3, <1>7 DEF Reset, Over, task, disk
<1>8. CASE Create
  <2>1. PICK w \in {"wait", "listen"} : pc' = [pc EXCEPT ![rec] = w]
    BY <1>8 DEF Create, Goto
  <2>2. \A r \in Recs : pc'[r] = pc[r] \/ pc'[r] = w
    BY <1>0, <2>1
  <2>3. /\ ui' = "running" /\ UNCHANGED <<fp, opened, filter, secft, status>>
    BY <1>8 DEF Create, object, disk
  <2>4. FilesOK' /\ OverOK'
    BY <1>1, <2>3 DEF FilesOK, OverOK, Over
  <2>5. TasksOK'
    BY <1>1, <2>1, <2>2, <2>3 DEF TasksOK
  <2> QED BY <2>4, <2>5
<1>9. CASE Running
  BY <1>3, <1>9 DEF Running, Over, task, disk
<1>10. CASE Halt
  BY <1>3, <1>10 DEF Halt, Lock, Over, disk
<1>11. CASE Close
  <2>1. /\ ui' = "filters" /\ UNCHANGED <<fp, filter, secft, status, pc>>
        /\ fp = NULL \/ fp \in opened
    BY <1>11 DEF Close, Fclose, object, task
  <2>2. opened' = {}
    BY <1>1, <1>11 DEF Close, Fclose, FilesOK
  <2>3. \A r \in Recs : pc[r] # "open"
    BY <1>1, <2>1 DEF TasksOK
  <2> QED BY <1>1, <2>1, <2>2, <2>3 DEF FilesOK, TasksOK, OverOK
<1>12. CASE Filters
  <2>1. /\ ui = "filters" /\ ui' = "idle" /\ filter' = FALSE
        /\ UNCHANGED <<fp, opened, secft, status, pc>>
    BY <1>1, <1>12 DEF Filters, FilesOK, object, task, disk
  <2> QED BY <1>1, <2>1 DEF FilesOK, TasksOK, OverOK, Over
<1>13. CASE Idled
  <2>1. /\ ui = "idle" /\ ui' = "menu" /\ status' = "idle"
        /\ UNCHANGED <<fp, opened, filter, secft, pc>>
    BY <1>13 DEF Idled, task, disk
  <2> QED BY <1>3, <2>1 DEF Over
<1>14. CASE \E m \in {"normal", "timeshift"} : SetMode(m)
  BY <1>1, <1>3, <1>14 DEF SetMode, FilesOK, Over, object, task, disk
<1> QED BY <1>4, <1>5, <1>6, <1>7, <1>8, <1>9, <1>10, <1>11, <1>12, <1>13, <1>14
        DEF UserStep, CallStep

\* Between recordings nothing stays open, whether the user interface stopped the last
\* one or its task gave up, and wherever in the loop the two met, unless a call changed
\* the object under its living task or a closed FILE was used.
THEOREM RecordingReleased == Spec => []Released
<1>1. IInv /\ OpenInv /\ [Next]_vars => OpenInv'
  <2> SUFFICES ASSUME IInv, OpenInv, [Next]_vars PROVE OpenInv'
    OBVIOUS
  <2>1. CASE UNCHANGED vars
    BY <2>1 DEF vars, object, task, call, disk, OpenInv, FilesOK, TasksOK, OverOK, Over
  <2>2. ASSUME ~crash, NEW t \in Recs, TaskStep(t) PROVE OpenInv'
    BY <2>2, TaskOpen
  <2>3. ASSUME ~crash, UserStep PROVE OpenInv'
    BY <2>3, CallOpen
  <2> QED BY <2>1, <2>2, <2>3 DEF Next, UserStep
<1>2. OpenInv => Released
  BY DEF OpenInv, OverOK, Over, Released
<1> QED BY <1>1, <1>2, OpenInit, RecorderInv, PTL DEF Spec

=============================================================================
