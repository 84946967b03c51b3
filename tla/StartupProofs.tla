----------------------------- MODULE StartupProofs -----------------------------
(***************************************************************************)
(* Theorems about Startup, for every width, file, buffer size and queue    *)
(* depth.  The handles of the file and of the completion port have one     *)
(* owner from when they are opened until they are closed, and the outcome  *)
(* of main tells what became of threads, buffers and handles.  While sizes *)
(* fit their types the contexts tile the file, and a task's offset is that *)
(* of the context it reads.                                                *)
(***************************************************************************)
EXTENDS Startup, Quotients, FiniteSetTheorems, TLAPS

Holdings == [Objects -> Handles \cup {Invalid}]

CallCounts == [Handles -> Nat]

HandleStates == [holds : Holdings, opened : CallCounts, closed : CallCounts]

-----------------------------------------------------------------------------
(* What the operations on handle objects do to the two functions.          *)

(* A constructed object holds its handle; the others are left alone. *)
LEMMA ConstructFacts ==
  ASSUME NEW hs \in HandleStates, NEW o \in Objects, NEW h \in Handles \cup {Invalid}
  PROVE  /\ Construct(hs, o, h) \in HandleStates
         /\ Construct(hs, o, h).holds[o] = h
         /\ \A p \in Objects \ {o} : Construct(hs, o, h).holds[p] = hs.holds[p]
         /\ Construct(hs, o, h).closed = hs.closed
         /\ Construct(hs, o, h).opened = hs.opened
  BY DEF Construct, HandleStates, Holdings

(* The move constructor leaves the source without a handle. *)
LEMMA MoveConstructFacts ==
  ASSUME NEW hs \in HandleStates, NEW from \in Objects, NEW to \in Objects, from # to
  PROVE  /\ MoveConstruct(hs, from, to) \in HandleStates
         /\ MoveConstruct(hs, from, to).holds[to] = hs.holds[from]
         /\ MoveConstruct(hs, from, to).holds[from] = Invalid
         /\ \A p \in Objects \ {from, to} :
              MoveConstruct(hs, from, to).holds[p] = hs.holds[p]
         /\ MoveConstruct(hs, from, to).closed = hs.closed
         /\ MoveConstruct(hs, from, to).opened = hs.opened
  <1> DEFINE m == Construct(hs, to, hs.holds[from])
  <1>1. hs.holds[from] \in Handles \cup {Invalid}
    BY DEF HandleStates, Holdings
  <1>2. /\ m \in HandleStates
        /\ m.holds[to] = hs.holds[from]
        /\ \A p \in Objects \ {to} : m.holds[p] = hs.holds[p]
        /\ m.closed = hs.closed
        /\ m.opened = hs.opened
    BY <1>1, ConstructFacts
  <1>3. MoveConstruct(hs, from, to) = Construct(m, from, Invalid)
    BY DEF MoveConstruct
  <1> HIDE DEF m
  <1>4. QED
    BY <1>2, <1>3, ConstructFacts

(* ~GenericHandleObject closes what the object holds, if anything. *)
LEMMA DestroyFacts ==
  ASSUME NEW hs \in HandleStates, NEW o \in Objects
  PROVE  /\ Destroy(hs, o) \in HandleStates
         /\ Destroy(hs, o).holds[o] = Invalid
         /\ \A p \in Objects \ {o} : Destroy(hs, o).holds[p] = hs.holds[p]
         /\ Destroy(hs, o).opened = hs.opened
         /\ \A h \in Handles :
              Destroy(hs, o).closed[h] = hs.closed[h] + (IF hs.holds[o] = h THEN 1 ELSE 0)
  BY DEF Destroy, HandleStates, Holdings, CallCounts

(* Destroying an object without a handle closes nothing. *)
LEMMA DestroyEmpty ==
  ASSUME NEW hs \in HandleStates, NEW o \in Objects, hs.holds[o] = Invalid
  PROVE  Destroy(hs, o).closed = hs.closed
  <1>1. \A h \in Handles : h # Invalid
    BY DEF Handles, Invalid
  <1>2. \A h \in Handles : hs.closed[h] + (IF hs.holds[o] = h THEN 1 ELSE 0) = hs.closed[h]
    BY <1>1 DEF HandleStates, CallCounts
  <1>3. Destroy(hs, o).closed = [h \in Handles |-> hs.closed[h]]
    BY <1>2 DEF Destroy
  <1>4. QED
    BY <1>3 DEF HandleStates, CallCounts

(* Passing through temporaries moves the handle and closes nothing. *)
LEMMA PassFacts ==
  ASSUME NEW hs \in HandleStates,
         NEW from \in Objects \ {"temporary"}, NEW to \in Objects \ {"temporary"}, from # to
  PROVE  /\ Pass(hs, from, to) \in HandleStates
         /\ Pass(hs, from, to).holds["temporary"] = Invalid
         /\ Pass(hs, from, to).holds[to] = hs.holds[from]
         /\ Pass(hs, from, to).holds[from] = Invalid
         /\ \A p \in Objects \ {from, to, "temporary"} :
              Pass(hs, from, to).holds[p] = hs.holds[p]
         /\ Pass(hs, from, to).closed = hs.closed
         /\ Pass(hs, from, to).opened = hs.opened
  <1> DEFINE m1 == MoveConstruct(hs, from, "temporary")
             m2 == MoveConstruct(m1, "temporary", to)
  <1>1. "temporary" \in Objects
    BY DEF Objects
  <1>2. Pass(hs, from, to) = Destroy(m2, "temporary")
    BY DEF Pass
  <1>3. /\ m1 \in HandleStates
        /\ m1.holds["temporary"] = hs.holds[from]
        /\ m1.holds[from] = Invalid
        /\ \A p \in Objects \ {from, "temporary"} : m1.holds[p] = hs.holds[p]
        /\ m1.closed = hs.closed /\ m1.opened = hs.opened
    BY <1>1, MoveConstructFacts
  <1> HIDE DEF m1
  <1>4. /\ m2 \in HandleStates
        /\ m2.holds[to] = m1.holds["temporary"]
        /\ m2.holds["temporary"] = Invalid
        /\ \A p \in Objects \ {"temporary", to} : m2.holds[p] = m1.holds[p]
        /\ m2.closed = m1.closed /\ m2.opened = m1.opened
    BY <1>1, <1>3, MoveConstructFacts
  <1> HIDE DEF m2
  <1>5. /\ Destroy(m2, "temporary") \in HandleStates
        /\ Destroy(m2, "temporary").holds["temporary"] = Invalid
        /\ \A p \in Objects \ {"temporary"} : Destroy(m2, "temporary").holds[p] = m2.holds[p]
        /\ Destroy(m2, "temporary").opened = m2.opened
    BY <1>1, <1>4, DestroyFacts
  <1>6. Destroy(m2, "temporary").closed = m2.closed
    BY <1>1, <1>4, DestroyEmpty
  <1>7. QED
    BY <1>1, <1>2, <1>3, <1>4, <1>5, <1>6

(* A handle is opened. *)
LEMMA OpenFacts ==
  ASSUME NEW hs \in HandleStates, NEW handle \in Handles
  PROVE  /\ Open(hs, handle) \in HandleStates
         /\ Open(hs, handle).holds = hs.holds
         /\ Open(hs, handle).closed = hs.closed
         /\ Open(hs, handle).opened[handle] = hs.opened[handle] + 1
         /\ \A h \in Handles \ {handle} : Open(hs, handle).opened[h] = hs.opened[h]
  BY DEF Open, HandleStates, Holdings, CallCounts

(* A new handle is opened, reaches its object, and nothing is closed. *)
LEMMA ReturnNewFacts ==
  ASSUME NEW hs \in HandleStates, NEW handle \in Handles, NEW to \in Objects \ {"temporary"}
  PROVE  /\ ReturnNew(hs, handle, to) \in HandleStates
         /\ ReturnNew(hs, handle, to).holds["temporary"] = Invalid
         /\ ReturnNew(hs, handle, to).holds[to] = handle
         /\ \A p \in Objects \ {to, "temporary"} :
              ReturnNew(hs, handle, to).holds[p] = hs.holds[p]
         /\ ReturnNew(hs, handle, to).closed = hs.closed
  <1> DEFINE m0 == Open(hs, handle)
             m1 == Construct(m0, "temporary", handle)
             m2 == MoveConstruct(m1, "temporary", to)
  <1>1. "temporary" \in Objects
    BY DEF Objects
  <1>2. ReturnNew(hs, handle, to) = Destroy(m2, "temporary")
    BY DEF ReturnNew
  <1>open. /\ m0 \in HandleStates /\ m0.holds = hs.holds /\ m0.closed = hs.closed
    BY OpenFacts
  <1> HIDE DEF m0
  <1>3. /\ m1 \in HandleStates
        /\ m1.holds["temporary"] = handle
        /\ \A p \in Objects \ {"temporary"} : m1.holds[p] = m0.holds[p]
        /\ m1.closed = m0.closed /\ m1.opened = m0.opened
    BY <1>1, <1>open, ConstructFacts
  <1> HIDE DEF m1
  <1>4. /\ m2 \in HandleStates
        /\ m2.holds[to] = m1.holds["temporary"]
        /\ m2.holds["temporary"] = Invalid
        /\ \A p \in Objects \ {"temporary", to} : m2.holds[p] = m1.holds[p]
        /\ m2.closed = m1.closed /\ m2.opened = m1.opened
    BY <1>1, <1>3, MoveConstructFacts
  <1> HIDE DEF m2
  <1>5. /\ Destroy(m2, "temporary") \in HandleStates
        /\ Destroy(m2, "temporary").holds["temporary"] = Invalid
        /\ \A p \in Objects \ {"temporary"} : Destroy(m2, "temporary").holds[p] = m2.holds[p]
        /\ Destroy(m2, "temporary").opened = m2.opened
    BY <1>1, <1>4, DestroyFacts
  <1>6. Destroy(m2, "temporary").closed = m2.closed
    BY <1>1, <1>4, DestroyEmpty
  <1>7. QED
    BY <1>1, <1>2, <1>open, <1>3, <1>4, <1>5, <1>6

(* It counts as opened once more. *)
LEMMA ReturnNewOpens ==
  ASSUME NEW hs \in HandleStates, NEW handle \in Handles, NEW to \in Objects \ {"temporary"}
  PROVE  /\ ReturnNew(hs, handle, to).opened[handle] = hs.opened[handle] + 1
         /\ \A h \in Handles \ {handle} :
              ReturnNew(hs, handle, to).opened[h] = hs.opened[h]
  <1> DEFINE m0 == Open(hs, handle)
             m1 == Construct(m0, "temporary", handle)
             m2 == MoveConstruct(m1, "temporary", to)
  <1>1. "temporary" \in Objects
    BY DEF Objects
  <1>2. m0 \in HandleStates
    BY OpenFacts
  <1> HIDE DEF m0
  <1>3. m1 \in HandleStates /\ m1.opened = m0.opened
    BY <1>1, <1>2, ConstructFacts
  <1> HIDE DEF m1
  <1>4. m2 \in HandleStates /\ m2.opened = m1.opened
    BY <1>1, <1>3, MoveConstructFacts
  <1> HIDE DEF m2
  <1>5. Destroy(m2, "temporary").opened = m2.opened
    BY <1>1, <1>4, DestroyFacts
  <1>6. ReturnNew(hs, handle, to).opened = Open(hs, handle).opened
    BY <1>3, <1>4, <1>5 DEF ReturnNew, m0, m1, m2
  <1>7. QED
    BY <1>6, OpenFacts

-----------------------------------------------------------------------------
(* The inductive invariant.                                                *)

(* main starts with no object holding a handle. *)
LEMMA HandleInit == Init => HandleInv
  <1> SUFFICES ASSUME Init
               PROVE  HandleInv
    OBVIOUS
  <1>1. /\ handles \in HandleStates
        /\ \A o \in Objects : handles.holds[o] = Invalid
        /\ \A h \in Handles : handles.closed[h] = 0 /\ handles.opened[h] = 0
    BY DEF Init, HandleStates, Holdings, CallCounts
  <1>2. step = "pool" /\ Holders(step) = {} /\ Held = {}
    BY DEF Init, Holders, ReadSteps, Held
  <1>3. QED
    BY <1>1, <1>2 DEF HandleInv, HandlesHeld, HandleStates, Holdings, CallCounts

(* A step that moves no handle and passes between two program points with *)
(* the same holders keeps the invariant. *)
LEMMA SameHolders ==
  ASSUME HandleInv, handles' = handles, step # "end", step' # "end",
         Holders(step') = Holders(step)
  PROVE  HandleInv'
  <1>1. Held' = Held
    BY DEF Held
  <1>2. QED
    BY <1>1 DEF HandleInv, HandlesHeld

(* Leaving main closes what is held, from every step at which it can. *)
LEMMA LeaveStep ==
  ASSUME HandleInv, step # "end", NEW code, NEW left \in HandleStates,
         LeaveMain(code, left),
         \A o \in Objects : left.holds[o] = Invalid,
         left.opened = handles.opened,
         \A h \in Handles : left.closed[h] = IF h \in Held THEN 1 ELSE 0
  PROVE  HandleInv'
  <1>1. handles' = left /\ step' = "end"
    BY DEF LeaveMain
  <1>2. Holders("end") = {}
    BY DEF Holders, ReadSteps
  <1>3. \A h \in Handles : left.opened[h] = (IF h \in Held THEN 1 ELSE 0)
    BY DEF HandleInv, HandlesHeld
  <1>4. \A h \in Handles : left.closed[h] = left.opened[h] /\ left.opened[h] <= 1
    BY <1>3
  <1>5. QED
    BY <1>1, <1>2, <1>4
    DEF HandleInv, HandlesHeld, HandleStates, Holdings, CallCounts

(* What is held, by the handles themselves. *)
LEMMA HeldByObjects ==
  ASSUME HandleInv, Holders(step) \subseteq Objects, NEW h \in Handles
  PROVE  h \in Held <=> \E o \in Objects : handles.holds[o] = h
  <1>1. h # Invalid
    BY DEF Handles, Invalid
  <1>2. \A o \in Objects :
          handles.holds[o] = IF o \in Holders(step) THEN HandleOf(o) ELSE Invalid
    BY DEF HandleInv, HandlesHeld
  <1>3. QED
    BY <1>1, <1>2 DEF Held

(* `return` destroys main's objects and closes what they hold, once. *)
LEMMA ReturnStep ==
  ASSUME HandleInv, NEW code, Return(code),
         step \in {"pool", "threads", "open", "buffer_size", "mainQueue", "post", "print"}
  PROVE  HandleInv'
  <1> DEFINE d1 == Destroy(handles, "read.port")
             d2 == Destroy(d1, "read.file")
             d3 == Destroy(d2, "file")
  <1>1. {"read.port", "read.file", "file", "completion_port", "temporary"} = Objects
    BY DEF Objects
  <1>2. /\ handles \in HandleStates
        /\ \A h \in Handles : handles.closed[h] = 0
    BY DEF HandleInv, HandlesHeld, HandleStates, Holdings, CallCounts
  <1>3. /\ handles.holds["completion_port"] = Invalid
        /\ handles.holds["temporary"] = Invalid
        /\ handles.holds["read.port"] \in {"the port", Invalid}
        /\ handles.holds["read.file"] \in {"the file", Invalid}
        /\ handles.holds["file"] \in {"the file", Invalid}
        /\ handles.holds["file"] = Invalid \/ handles.holds["read.file"] = Invalid
    BY <1>1 DEF HandleInv, HandlesHeld, Holders, HandleOf, ReadSteps
  <1>4. /\ d1 \in HandleStates
        /\ d1.holds["read.port"] = Invalid
        /\ \A p \in Objects \ {"read.port"} : d1.holds[p] = handles.holds[p]
        /\ d1.opened = handles.opened
        /\ \A h \in Handles : d1.closed[h]
             = handles.closed[h] + (IF handles.holds["read.port"] = h THEN 1 ELSE 0)
    BY <1>1, <1>2, DestroyFacts
  <1> HIDE DEF d1
  <1>5. /\ d2 \in HandleStates
        /\ d2.holds["read.file"] = Invalid
        /\ \A p \in Objects \ {"read.file"} : d2.holds[p] = d1.holds[p]
        /\ d2.opened = d1.opened
        /\ \A h \in Handles : d2.closed[h]
             = d1.closed[h] + (IF d1.holds["read.file"] = h THEN 1 ELSE 0)
    BY <1>1, <1>4, DestroyFacts
  <1> HIDE DEF d2
  <1>6. /\ d3 \in HandleStates
        /\ d3.holds["file"] = Invalid
        /\ \A p \in Objects \ {"file"} : d3.holds[p] = d2.holds[p]
        /\ d3.opened = d2.opened
        /\ \A h \in Handles : d3.closed[h]
             = d2.closed[h] + (IF d2.holds["file"] = h THEN 1 ELSE 0)
    BY <1>1, <1>5, DestroyFacts
  <1>7. LeaveMain(code, d3)
    BY DEF Return, d1, d2
  <1> HIDE DEF d3
  <1>8. /\ d1.holds["read.file"] = handles.holds["read.file"]
        /\ d1.holds["file"] = handles.holds["file"]
        /\ d2.holds["file"] = handles.holds["file"]
    BY <1>1, <1>4, <1>5
  <1>9. \A o \in Objects : d3.holds[o] = Invalid
    <2>1. ASSUME NEW o \in {"completion_port", "temporary"}
          PROVE  d3.holds[o] = Invalid
      <3>1. /\ o \in Objects \ {"read.port"} /\ o \in Objects \ {"read.file"}
            /\ o \in Objects \ {"file"} /\ handles.holds[o] = Invalid
        BY <1>1, <1>3
      <3>2. QED
        BY <1>4, <1>5, <1>6, <3>1
    <2>2. d3.holds["read.port"] = Invalid /\ d3.holds["read.file"] = Invalid
      BY <1>1, <1>4, <1>5, <1>6
    <2>3. QED
      BY <1>1, <1>6, <2>1, <2>2
  <1>10. Holders(step) \subseteq Objects
    BY DEF Holders, ReadSteps, Objects
  <1>11. ASSUME NEW h \in Handles
         PROVE  d3.closed[h] = IF h \in Held THEN 1 ELSE 0
    <2>1. d3.closed[h] = (IF handles.holds["read.port"] = h THEN 1 ELSE 0)
                           + (IF handles.holds["read.file"] = h THEN 1 ELSE 0)
                           + (IF handles.holds["file"] = h THEN 1 ELSE 0)
      BY <1>2, <1>4, <1>5, <1>6, <1>8
    <2>2. h \in {"the file", "the port"} /\ h # Invalid
      BY DEF Handles, Invalid
    <2>3. h \in Held <=> \/ handles.holds["read.port"] = h
                         \/ handles.holds["read.file"] = h
                         \/ handles.holds["file"] = h
      BY <1>1, <1>3, <1>10, <2>2, HeldByObjects
    <2>4. CASE h = "the port"
      <3>1. handles.holds["read.file"] # h /\ handles.holds["file"] # h
        BY <1>3, <2>4 DEF Invalid
      <3>2. QED
        BY <2>1, <2>3, <3>1
    <2>5. CASE h = "the file"
      <3>1. handles.holds["read.port"] # h
        BY <1>3, <2>5 DEF Invalid
      <3>2. handles.holds["read.file"] # h \/ handles.holds["file"] # h
        BY <1>3, <2>5 DEF Invalid
      <3>3. QED
        BY <2>1, <2>3, <3>1, <3>2
    <2>6. QED
      BY <2>2, <2>4, <2>5
  <1>12. d3.opened = handles.opened /\ step # "end"
    BY <1>4, <1>5, <1>6
  <1>13. QED
    BY <1>6, <1>7, <1>9, <1>11, <1>12, LeaveStep

(* A PrepareToReadFile that fails closes its port, and main the file. *)
LEMMA PrepareFailsStep ==
  ASSUME HandleInv, PrepareFails, step \in {"file_size", "port", "contexts"}
  PROVE  HandleInv'
  <1> DEFINE d1 == Destroy(handles, "completion_port")
             d2 == Destroy(d1, "file")
  <1>1. {"read.port", "read.file", "file", "completion_port", "temporary"} = Objects
    BY DEF Objects
  <1>2. /\ handles \in HandleStates
        /\ \A h \in Handles : handles.closed[h] = 0
    BY DEF HandleInv, HandlesHeld, HandleStates, Holdings, CallCounts
  <1>3. /\ handles.holds["completion_port"] \in {"the port", Invalid}
        /\ handles.holds["file"] = "the file"
        /\ \A o \in Objects \ {"completion_port", "file"} : handles.holds[o] = Invalid
    BY <1>1 DEF HandleInv, HandlesHeld, Holders, ReadSteps, HandleOf
  <1>4. /\ d1 \in HandleStates
        /\ d1.holds["completion_port"] = Invalid
        /\ \A p \in Objects \ {"completion_port"} : d1.holds[p] = handles.holds[p]
        /\ d1.opened = handles.opened
        /\ \A h \in Handles : d1.closed[h]
             = handles.closed[h] + (IF handles.holds["completion_port"] = h THEN 1 ELSE 0)
    BY <1>1, <1>2, DestroyFacts
  <1> HIDE DEF d1
  <1>5. /\ d2 \in HandleStates
        /\ d2.holds["file"] = Invalid
        /\ \A p \in Objects \ {"file"} : d2.holds[p] = d1.holds[p]
        /\ d2.opened = d1.opened
        /\ \A h \in Handles : d2.closed[h]
             = d1.closed[h] + (IF d1.holds["file"] = h THEN 1 ELSE 0)
    BY <1>1, <1>4, DestroyFacts
  <1>6. LeaveMain("returned -1", d2)
    BY DEF PrepareFails, d1
  <1> HIDE DEF d2
  <1>7. \A o \in Objects : d2.holds[o] = Invalid
    <2> SUFFICES ASSUME NEW o \in Objects
                 PROVE  d2.holds[o] = Invalid
      OBVIOUS
    <2>1. CASE o = "file"
      BY <1>5, <2>1
    <2>2. CASE o = "completion_port"
      BY <1>4, <1>5, <2>2
    <2>3. CASE o \notin {"file", "completion_port"}
      BY <1>3, <1>4, <1>5, <2>3
    <2>4. QED
      BY <2>1, <2>2, <2>3
  <1>8. Holders(step) \subseteq Objects
    BY DEF Holders, ReadSteps, Objects
  <1>9. ASSUME NEW h \in Handles
        PROVE  d2.closed[h] = IF h \in Held THEN 1 ELSE 0
    <2>1. d1.holds["file"] = handles.holds["file"]
      BY <1>1, <1>4
    <2>2. d2.closed[h] = (IF handles.holds["completion_port"] = h THEN 1 ELSE 0)
                           + (IF handles.holds["file"] = h THEN 1 ELSE 0)
      BY <1>2, <1>4, <1>5, <2>1
    <2>3. h # Invalid
      BY DEF Handles, Invalid
    <2>4. h \in Held <=> \/ handles.holds["completion_port"] = h
                         \/ handles.holds["file"] = h
      BY <1>1, <1>3, <1>8, <2>3, HeldByObjects
    <2>5. handles.holds["completion_port"] # h \/ handles.holds["file"] # h
      BY <1>3 DEF Invalid
    <2>6. QED
      BY <2>2, <2>4, <2>5
  <1>10. d2.opened = handles.opened /\ step # "end"
    BY <1>4, <1>5
  <1>11. QED
    BY <1>5, <1>6, <1>7, <1>9, <1>10, LeaveStep

(* Before main is left nothing has been closed, and what is held was opened *)
(* once.                                                                     *)
LEMMA HeldFacts ==
  ASSUME HandleInv, step # "end"
  PROVE  /\ handles \in HandleStates
         /\ \A h \in Handles :
              handles.closed[h] = 0 /\ handles.opened[h] = (IF h \in Held THEN 1 ELSE 0)
         /\ \A o \in Objects :
              handles.holds[o] = IF o \in Holders(step) THEN HandleOf(o) ELSE Invalid
  BY DEF HandleInv, HandlesHeld, HandleStates, Holdings, CallCounts

(* What a step that moves handles has to establish. *)
LEMMA HoldersBecome ==
  ASSUME handles' \in HandleStates, step' # "end",
         \A h \in Handles :
           handles'.closed[h] = 0 /\ handles'.opened[h] = (IF h \in Held' THEN 1 ELSE 0),
         \A o \in Objects :
           handles'.holds[o] = IF o \in Holders(step') THEN HandleOf(o) ELSE Invalid
  PROVE  HandleInv'
  BY DEF HandleInv, HandlesHeld, HandleStates, Holdings, CallCounts

(* CreateOverlappedIOFile hands the file over to main's `file`. *)
LEMMA OpenFileStep ==
  ASSUME HandleInv, OpenFile
  PROVE  HandleInv'
  <1>1. step = "open" /\ handles' = ReturnNew(handles, "the file", "file")
    BY DEF OpenFile, At
  <1>2. step' = "buffer_size"
    BY DEF OpenFile, Goto
  <1>3. Holders("open") = {} /\ Holders("buffer_size") = {"file"}
    BY DEF Holders, ReadSteps
  <1>4. /\ handles \in HandleStates
        /\ \A h \in Handles : handles.closed[h] = 0 /\ handles.opened[h] = 0
        /\ \A o \in Objects : handles.holds[o] = Invalid
    <2>1. Held = {}
      BY <1>1, <1>3 DEF Held
    <2>2. QED
      BY <1>1, <1>3, <2>1, HeldFacts
  <1>5. "the file" \in Handles /\ "file" \in Objects \ {"temporary"}
    BY DEF Handles, Objects
  <1>6. /\ handles' \in HandleStates
        /\ handles'.holds["temporary"] = Invalid
        /\ handles'.holds["file"] = "the file"
        /\ \A p \in Objects \ {"file", "temporary"} : handles'.holds[p] = handles.holds[p]
        /\ handles'.closed = handles.closed
        /\ handles'.opened["the file"] = handles.opened["the file"] + 1
        /\ \A h \in Handles \ {"the file"} : handles'.opened[h] = handles.opened[h]
    <2>1. handles \in HandleStates
      BY <1>4
    <2>2. handles' = ReturnNew(handles, "the file", "file")
      BY <1>1
    <2> DEFINE new == ReturnNew(handles, "the file", "file")
    <2>3. /\ new \in HandleStates
          /\ new.holds["temporary"] = Invalid
          /\ new.holds["file"] = "the file"
          /\ \A p \in Objects \ {"file", "temporary"} : new.holds[p] = handles.holds[p]
          /\ new.closed = handles.closed
      BY <1>5, <2>1, ReturnNewFacts
    <2>opens. /\ new.opened["the file"] = handles.opened["the file"] + 1
              /\ \A h \in Handles \ {"the file"} : new.opened[h] = handles.opened[h]
      BY <1>5, <2>1, ReturnNewOpens
    <2> HIDE DEF new
    <2>4. handles' = new
      BY <2>2 DEF new
    <2>5. QED
      BY <2>3, <2>opens, <2>4
  <1>7. HandleOf("file") = "the file"
    BY DEF HandleOf
  <1>8. \A o \in Objects :
          handles'.holds[o] = IF o \in Holders(step') THEN HandleOf(o) ELSE Invalid
    BY <1>2, <1>3, <1>4, <1>6, <1>7
  <1>9. Held' = {"the file"}
    BY <1>2, <1>3, <1>7 DEF Held
  <1>10. \A h \in Handles :
           handles'.closed[h] = 0 /\ handles'.opened[h] = (IF h \in Held' THEN 1 ELSE 0)
    <2> SUFFICES ASSUME NEW h \in Handles
                 PROVE  /\ handles'.closed[h] = 0
                        /\ handles'.opened[h] = (IF h \in Held' THEN 1 ELSE 0)
      OBVIOUS
    <2>1. handles'.closed[h] = 0
      BY <1>4, <1>6
    <2>2. h \in Held' <=> h = "the file"
      BY <1>9
    <2>3. CASE h = "the file"
      <3>1. handles.opened["the file"] = 0
        BY <1>4, <1>5
      <3>2. handles'.opened["the file"] = 1
        <4>1. handles'.opened["the file"] = handles.opened["the file"] + 1
          BY <1>6
        <4>2. 0 + 1 = 1
          OBVIOUS
        <4>3. QED
          BY <3>1, <4>1, <4>2, Zenon
      <3>3. QED
        BY <2>1, <2>2, <2>3, <3>2
    <2>4. CASE h # "the file"
      BY <1>4, <1>6, <2>1, <2>2, <2>4
    <2>5. QED
      BY <2>3, <2>4
  <1>11. QED
    BY <1>2, <1>6, <1>8, <1>10, HoldersBecome

(* CreateCompletionPort hands the port over to `completion_port`. *)
LEMMA CreateCompletionPortStep ==
  ASSUME HandleInv, CreateCompletionPort
  PROVE  HandleInv'
  <1>1. step = "port" /\ handles' = ReturnNew(handles, "the port", "completion_port")
    BY DEF CreateCompletionPort, At
  <1>2. step' = "operation_count"
    BY DEF CreateCompletionPort, Goto
  <1>3. Holders("port") = {"file"} /\ Holders("operation_count") = {"file", "completion_port"}
    BY DEF Holders, ReadSteps
  <1>4. /\ handles \in HandleStates
        /\ \A h \in Handles : handles.closed[h] = 0
        /\ handles.opened["the file"] = 1 /\ handles.opened["the port"] = 0
        /\ \A o \in Objects :
             handles.holds[o] = IF o \in {"file"} THEN HandleOf(o) ELSE Invalid
    <2>1. Held = {"the file"}
      BY <1>1, <1>3 DEF Held, HandleOf
    <2>2. QED
      <3>1. "the file" \in Handles /\ "the port" \in Handles
        BY DEF Handles
      <3>2. \A h \in Handles :
              handles.closed[h] = 0 /\ handles.opened[h] = (IF h \in Held THEN 1 ELSE 0)
        BY <1>1, HeldFacts
      <3>3. handles.opened["the file"] = 1 /\ handles.opened["the port"] = 0
        BY <2>1, <3>1, <3>2
      <3>4. QED
        BY <1>1, <1>3, <3>2, <3>3, HeldFacts
  <1>5. "the port" \in Handles /\ "completion_port" \in Objects \ {"temporary"}
    BY DEF Handles, Objects
  <1>typed. handles \in HandleStates
    BY <1>4
  <1>6. /\ handles' \in HandleStates
        /\ handles'.holds["temporary"] = Invalid
        /\ handles'.holds["completion_port"] = "the port"
        /\ \A p \in Objects \ {"completion_port", "temporary"} :
             handles'.holds[p] = handles.holds[p]
        /\ handles'.closed = handles.closed
        /\ handles'.opened["the port"] = handles.opened["the port"] + 1
        /\ \A h \in Handles \ {"the port"} : handles'.opened[h] = handles.opened[h]
    <2>2. handles' = ReturnNew(handles, "the port", "completion_port")
      BY <1>1
    <2> DEFINE new == ReturnNew(handles, "the port", "completion_port")
    <2>3. /\ new \in HandleStates
          /\ new.holds["temporary"] = Invalid
          /\ new.holds["completion_port"] = "the port"
          /\ \A p \in Objects \ {"completion_port", "temporary"} :
               new.holds[p] = handles.holds[p]
          /\ new.closed = handles.closed
      BY <1>5, <1>typed, ReturnNewFacts
    <2>opens. /\ new.opened["the port"] = handles.opened["the port"] + 1
              /\ \A h \in Handles \ {"the port"} : new.opened[h] = handles.opened[h]
      BY <1>5, <1>typed, ReturnNewOpens
    <2> HIDE DEF new
    <2>4. handles' = new
      BY <2>2 DEF new
    <2>5. QED
      BY <2>3, <2>opens, <2>4
  <1>7. HandleOf("completion_port") = "the port"
    BY DEF HandleOf
  <1>8. \A o \in Objects :
          handles'.holds[o] = IF o \in Holders(step') THEN HandleOf(o) ELSE Invalid
    BY <1>2, <1>3, <1>4, <1>6, <1>7
  <1>9. Held' = {"the file", "the port"}
    BY <1>2, <1>3 DEF Held, HandleOf
  <1>10. \A h \in Handles :
           handles'.closed[h] = 0 /\ handles'.opened[h] = (IF h \in Held' THEN 1 ELSE 0)
    <2> SUFFICES ASSUME NEW h \in Handles
                 PROVE  /\ handles'.closed[h] = 0
                        /\ handles'.opened[h] = (IF h \in Held' THEN 1 ELSE 0)
      OBVIOUS
    <2>1. handles'.closed[h] = 0
      BY <1>4, <1>6
    <2>2. h \in {"the file", "the port"} /\ h \in Held'
      BY <1>9 DEF Handles
    <2>3. handles'.opened[h] = 1
      <3>1. "the file" \in Handles \ {"the port"}
        BY DEF Handles
      <3>2. handles'.opened["the file"] = 1
        BY <1>4, <1>6, <3>1
      <3>3. handles'.opened["the port"] = 1
        <4>1. handles.opened["the port"] = 0
          BY <1>4
        <4>2. handles'.opened["the port"] = handles.opened["the port"] + 1
          BY <1>6
        <4>3. 0 + 1 = 1
          OBVIOUS
        <4>4. QED
          BY <4>1, <4>2, <4>3, Zenon
      <3>4. QED
        BY <2>2, <3>2, <3>3
    <2>4. QED
      BY <2>1, <2>2, <2>3
  <1>11. QED
    BY <1>2, <1>6, <1>8, <1>10, HoldersBecome

(* The file and the port end in the OverlappedIOFileRead, and only there. *)
LEMMA PreparedStep ==
  ASSUME HandleInv, Prepared
  PROVE  HandleInv'
  <1> DEFINE p1 == Pass(handles, "file", "read.file")
             p2 == Pass(p1, "completion_port", "read.port")
  <1>1. step = "contexts" /\ handles' = Destroy(p2, "completion_port")
    BY DEF Prepared, At
  <1>2. step' = "mainQueue"
    BY DEF Prepared, Goto
  <1>3. /\ Holders("contexts") = {"file", "completion_port"}
        /\ Holders("mainQueue") = {"read.file", "read.port"}
    BY DEF Holders, ReadSteps
  <1>4. /\ "file" \in Objects /\ "read.file" \in Objects
        /\ "completion_port" \in Objects /\ "read.port" \in Objects
        /\ Objects = {"file", "completion_port", "read.file", "read.port", "temporary"}
    BY DEF Objects
  <1>5. /\ HandleOf("file") = "the file" /\ HandleOf("read.file") = "the file"
        /\ HandleOf("completion_port") = "the port" /\ HandleOf("read.port") = "the port"
    BY DEF HandleOf
  <1>6. /\ handles \in HandleStates
        /\ \A h \in Handles : handles.closed[h] = 0
        /\ \A h \in Handles : handles.opened[h] = (IF h \in Held THEN 1 ELSE 0)
        /\ handles.holds["file"] = "the file"
        /\ handles.holds["completion_port"] = "the port"
    BY <1>1, <1>3, <1>4, <1>5, HeldFacts
  <1>fileMoves. /\ "file" \in Objects \ {"temporary"} /\ "read.file" \in Objects \ {"temporary"}
        /\ "file" # "read.file"
    BY DEF Objects
  <1>portMoves. /\ "completion_port" \in Objects \ {"temporary"}
        /\ "read.port" \in Objects \ {"temporary"}
        /\ "completion_port" # "read.port"
    BY DEF Objects
  <1>7. /\ p1 \in HandleStates
        /\ p1.holds["read.file"] = handles.holds["file"]
        /\ p1.holds["file"] = Invalid
        /\ \A p \in Objects \ {"file", "read.file", "temporary"} :
             p1.holds[p] = handles.holds[p]
        /\ p1.closed = handles.closed /\ p1.opened = handles.opened
    <2>1. handles \in HandleStates
      BY <1>6
    <2>2. QED
      BY <1>fileMoves, <2>1, PassFacts
  <1> HIDE DEF p1
  <1>8. p1.holds["completion_port"] = "the port" /\ p1.holds["read.file"] = "the file"
    BY <1>4, <1>6, <1>7
  <1>9. /\ p2 \in HandleStates
        /\ p2.holds["temporary"] = Invalid
        /\ p2.holds["read.port"] = p1.holds["completion_port"]
        /\ p2.holds["completion_port"] = Invalid
        /\ \A p \in Objects \ {"completion_port", "read.port", "temporary"} :
             p2.holds[p] = p1.holds[p]
        /\ p2.closed = p1.closed /\ p2.opened = p1.opened
    BY <1>portMoves, <1>7, PassFacts
  <1> HIDE DEF p2
  <1>10. p2.holds["file"] = Invalid /\ p2.holds["read.file"] = "the file"
    BY <1>4, <1>7, <1>8, <1>9
  <1>11. /\ handles' \in HandleStates
         /\ handles'.holds["completion_port"] = Invalid
         /\ \A p \in Objects \ {"completion_port"} : handles'.holds[p] = p2.holds[p]
         /\ handles'.opened = p2.opened
    BY <1>1, <1>4, <1>9, DestroyFacts
  <1>12. handles'.closed = handles.closed
    BY <1>1, <1>4, <1>7, <1>9, DestroyEmpty
  <1>13. /\ handles'.holds["file"] = Invalid /\ handles'.holds["temporary"] = Invalid
         /\ handles'.holds["read.file"] = "the file"
         /\ handles'.holds["read.port"] = "the port"
    BY <1>4, <1>8, <1>9, <1>10, <1>11
  <1>14. \A o \in Objects :
           handles'.holds[o] = IF o \in Holders(step') THEN HandleOf(o) ELSE Invalid
    BY <1>2, <1>3, <1>4, <1>5, <1>11, <1>13
  <1>15. Held' = Held
    <2>1. Held = {"the file", "the port"}
      BY <1>1, <1>3, <1>5 DEF Held
    <2>2. Held' = {"the file", "the port"}
      BY <1>2, <1>3, <1>5 DEF Held
    <2>3. QED
      BY <2>1, <2>2
  <1>16. \A h \in Handles :
           handles'.closed[h] = 0 /\ handles'.opened[h] = (IF h \in Held' THEN 1 ELSE 0)
    BY <1>6, <1>7, <1>9, <1>11, <1>12, <1>15
  <1>17. QED
    BY <1>2, <1>11, <1>14, <1>16, HoldersBecome

(* Every step of main keeps the invariant. *)
LEMMA HandleStep == HandleInv /\ [Next]_vars => HandleInv'
  <1> SUFFICES ASSUME HandleInv, [Next]_vars
               PROVE  HandleInv'
    OBVIOUS
  <1>1. CASE UNCHANGED vars
    BY <1>1 DEF vars, HandleInv, HandlesHeld, Held
  <1>2. CASE UseSuppliedThreadCount \/ CountCores \/ PoolCreated
    BY <1>2, SameHolders
    DEF UseSuppliedThreadCount, CountCores, PoolCreated, At, Goto, Holders, ReadSteps
  <1>3. CASE StartThread \/ CreateContext
    BY <1>3, SameHolders DEF StartThread, CreateContext, At
  <1>4. CASE ThreadThrows \/ DivideByZero \/ ReadCrashes
    BY <1>4, SameHolders DEF ThreadThrows, DivideByZero, ReadCrashes, Dies, At
  <1>5. CASE PoolNotCreated
    BY <1>5, ReturnStep DEF PoolNotCreated, At
  <1>6. CASE OpenFile
    BY <1>6, OpenFileStep
  <1>7. CASE UseSuppliedBufferSize \/ GetIdealBufferSize
    BY <1>7, SameHolders DEF UseSuppliedBufferSize, GetIdealBufferSize, At, Goto, Holders, ReadSteps
  <1>8. CASE ChooseQueueDepth
    BY <1>8, SameHolders DEF ChooseQueueDepth, At, Goto, Holders, ReadSteps
  <1>9. CASE GetFileSize
    BY <1>9, SameHolders DEF GetFileSize, At, Goto, Holders, ReadSteps
  <1>10. CASE CreateCompletionPort
    BY <1>10, CreateCompletionPortStep
  <1>11. CASE CountOperations
    BY <1>11, SameHolders DEF CountOperations, At, Goto, Holders, ReadSteps
  <1>12. CASE Prepared
    BY <1>12, PreparedStep
  <1>13. CASE CouldNotGetFileSize \/ CouldNotCreateCompletionPort \/ CouldNotCreateIOContexts
    BY <1>13, PrepareFailsStep
    DEF CouldNotGetFileSize, CouldNotCreateCompletionPort, CouldNotCreateIOContexts, At
  <1>14. CASE CreateMainQueue \/ TasksPosted \/ PhaseEnds \/ AllShutDown \/ AllJoined
    <2>1. step \in ReadSteps /\ step' \in ReadSteps
      BY <1>14 DEF CreateMainQueue, TasksPosted, PhaseEnds, AllShutDown, AllJoined, At, Goto,
                   ReadSteps
    <2>2. \A s \in ReadSteps : s # "end" /\ Holders(s) = {"read.file", "read.port"}
      BY DEF ReadSteps, Holders
    <2>3. handles' = handles
      BY <1>14 DEF CreateMainQueue, TasksPosted, PhaseEnds, AllShutDown, AllJoined
    <2>4. QED
      BY <2>1, <2>2, <2>3, SameHolders
  <1>15. CASE PostTask \/ ShutDownThread \/ JoinThread \/ PrintContext
    BY <1>15, SameHolders DEF PostTask, ShutDownThread, JoinThread, PrintContext, At
  <1>16. CASE PostFails
    <2>1. step = "post"
      BY <1>16 DEF PostFails, At
    <2>2. CASE Return("returned -1")
      BY <2>1, <2>2, ReturnStep
    <2>3. CASE Dies("crashed")
      BY <2>1, <2>3, SameHolders DEF Dies
    <2>4. QED
      BY <1>16, <2>2, <2>3 DEF PostFails
  <1>17. CASE MainFails \/ ReturnZero
    BY <1>17, ReturnStep DEF MainFails, ReturnZero, At
  <1>18. QED
    BY <1>1, <1>2, <1>3, <1>4, <1>5, <1>6, <1>7, <1>8, <1>9, <1>10, <1>11, <1>12,
       <1>13, <1>14, <1>15, <1>16, <1>17
    DEF Next

(* Which of main's objects hold the two handles at each point of main, that *)
(* each handle held has been opened once, and that nothing is closed before *)
(* main is left: for all options, sizes and refused calls.                  *)
THEOREM HandleInvariance == Spec => []HandleInv
  BY HandleInit, HandleStep, PTL DEF Spec

-----------------------------------------------------------------------------
(* For every set of options, core counts and sizes and whichever calls     *)
(* fail: the handles of the file and of the port are closed as often as    *)
(* they were opened when main has been left, and not at all before.        *)
THEOREM HandlesOnce == Spec => []HandlesClosedOnce
  <1>1. HandleInv => HandlesClosedOnce
    <2> SUFFICES ASSUME HandleInv
                 PROVE  HandlesClosedOnce
      OBVIOUS
    <2>1. ASSUME NEW h \in Handles
          PROVE  /\ handles.opened[h] <= 1
                 /\ handles.closed[h] = IF step = "end" THEN handles.opened[h] ELSE 0
      BY DEF HandleInv, HandlesHeld
    <2>2. ASSUME step \in ReadSteps
          PROVE  /\ handles.holds["read.file"] = "the file"
                 /\ handles.holds["read.port"] = "the port"
      <3>1. "read.file" \in Objects /\ "read.port" \in Objects
        BY DEF Objects
      <3>2. Holders(step) = {"read.file", "read.port"}
        BY <2>2 DEF Holders, ReadSteps
      <3>3. HandleOf("read.file") = "the file" /\ HandleOf("read.port") = "the port"
        BY DEF HandleOf
      <3>4. QED
        BY <3>1, <3>2, <3>3 DEF HandleInv, HandlesHeld
    <2>3. ASSUME step = "end"
          PROVE  \A o \in Objects : handles.holds[o] = Invalid
      BY <2>3 DEF HandleInv, HandlesHeld, Holders, ReadSteps
    <2>4. QED
      BY <2>1, <2>2, <2>3 DEF HandlesClosedOnce
  <1>2. QED
    BY <1>1, HandleInvariance, PTL

-----------------------------------------------------------------------------
(* The contexts.                                                           *)

(* A number that fits its type is stored as it is. *)
LEMMA Fits ==
  ASSUME NEW m \in Nat \ {0}, NEW x \in Nat, x < m
  PROVE  x % m = x
  <1>1. x \in 0 .. m - 1
    OBVIOUS
  <1>2. QED
    BY <1>1, FirstInChain

(* What the types say of one context and of the locals. *)
LEMMA TypeFacts ==
  ASSUME TypeOK
  PROVE  /\ \A x \in Locals : local[x] \in Nat
         /\ ContextSize \in 0 .. Dword - 1
         /\ Len(contexts) \in Nat /\ DOMAIN contexts = 1 .. Len(contexts)
  <1>1. \A x \in Locals : local[x] \in Nat
    BY DEF TypeOK
  <1>2. local["buffer_size"] \in Nat
    BY <1>1 DEF Locals
  <1>3. ContextSize \in 0 .. Dword - 1
    BY <1>2, WidthAssumption, Division DEF ContextSize
  <1>4. contexts \in Seq([offset : 0..Dword - 1, size : 0..Dword - 1])
    BY DEF TypeOK
  <1>5. Len(contexts) \in Nat /\ DOMAIN contexts = 1 .. Len(contexts)
    BY <1>4
  <1>6. QED
    BY <1>1, <1>3, <1>5

-----------------------------------------------------------------------------
(* The types. *)
LEMMA TypesInit == Init => TypeOK
  <1> SUFFICES ASSUME Init
               PROVE  TypeOK
    OBVIOUS
  <1>1. local \in [Locals -> Nat] /\ local["operation_count"] < Dword
    BY WidthAssumption DEF Init, Locals
  <1>2. contexts \in Seq([offset : 0..Dword - 1, size : 0..Dword - 1])
    BY DEF Init
  <1>3. handles \in [holds : [Objects -> Handles \cup {Invalid}],
                     opened : [Handles -> Nat], closed : [Handles -> Nat]]
    BY DEF Init
  <1>4. QED
    BY <1>1, <1>2, <1>3 DEF Init, TypeOK

(* main is left from anywhere. *)
LEMMA LeaveTypes ==
  ASSUME TypeOK, HandleInv', NEW code \in {"returned 0", "returned -1"}, NEW hs,
         LeaveMain(code, hs)
  PROVE  TypeOK'
  BY DEF LeaveMain, TypeOK, HandleInv

(* A local is assigned a number; operation_count one that a DWORD holds.   *)
LEMMA AssignTypes ==
  ASSUME local \in [Locals -> Nat], local["operation_count"] < Dword,
         NEW x \in Locals, NEW v \in Nat, Assign(x, v),
         x = "operation_count" => v < Dword
  PROVE  local' \in [Locals -> Nat] /\ local'["operation_count"] < Dword
  <1>1. local' = [local EXCEPT ![x] = v]
    BY DEF Assign
  <1>2. "operation_count" \in Locals
    BY DEF Locals
  <1>3. QED
    BY <1>1, <1>2

(* Every step keeps the types; those of the handles are in HandleInv.      *)
LEMMA TypesStep == OptionsAssumption /\ TypeOK /\ HandleInv' /\ [Next]_vars => TypeOK'
  <1> SUFFICES ASSUME OptionsAssumption, TypeOK, HandleInv', [Next]_vars
               PROVE  TypeOK'
    OBVIOUS
  <1>0. local \in [Locals -> Nat] /\ local["operation_count"] < Dword
    BY DEF TypeOK
  <1>1. handles' \in [holds : [Objects -> Handles \cup {Invalid}],
                      opened : [Handles -> Nat], closed : [Handles -> Nat]]
    BY DEF HandleInv
  <1>pool. pool \in [Counts -> Nat] /\ Started \in Nat
    BY DEF TypeOK, Started, Counts
  <1>2. ASSUME NEW x \in Locals \ {"operation_count"}, NEW v \in Nat, Assign(x, v),
               UNCHANGED <<options, pool, contexts, printed, process>>,
               step' \in {"threads", "queue_depth", "file_size", "port"}
        PROVE  TypeOK'
    <2>1. local' \in [Locals -> Nat] /\ local'["operation_count"] < Dword
      BY <1>0, <1>2, AssignTypes
    <2>2. QED
      BY <1>1, <1>2, <2>1 DEF TypeOK
  <1>3. CASE UseSuppliedThreadCount
    <2>1. options.thread_count \in Nat
      BY <1>3 DEF UseSuppliedThreadCount, TypeOK, OptionsAssumption
    <2>2. QED
      BY <1>2, <1>3, <2>1 DEF UseSuppliedThreadCount, Goto, Locals
  <1>4. CASE CountCores
    <2>1. PICK n \in CoreCounts : Assign("thread_count", n)
      BY <1>4 DEF CountCores
    <2>2. n \in Nat
      BY DEF OptionsAssumption
    <2>3. QED
      BY <1>2, <1>4, <2>1, <2>2 DEF CountCores, Goto, Locals
  <1>5. CASE StartThread \/ PostTask \/ ShutDownThread \/ JoinThread
    <2>1. PICK count \in Counts : pool' = [pool EXCEPT ![count] = @ + 1]
      BY <1>5 DEF StartThread, PostTask, ShutDownThread, JoinThread, NextThread, Counts
    <2>2. pool' \in [Counts -> Nat]
      BY <1>pool, <2>1
    <2>3. UNCHANGED <<step, options, local, contexts, printed, process>>
      BY <1>5 DEF StartThread, PostTask, ShutDownThread, JoinThread
    <2>4. QED
      BY <1>1, <2>2, <2>3 DEF TypeOK
  <1>6. CASE PoolNotCreated \/ MainFails \/ ReturnZero \/ CouldNotGetFileSize
               \/ CouldNotCreateCompletionPort \/ CouldNotCreateIOContexts
    BY <1>6, LeaveTypes
    DEF PoolNotCreated, MainFails, ReturnZero, CouldNotGetFileSize,
        CouldNotCreateCompletionPort, CouldNotCreateIOContexts, PrepareFails, Return
  <1>7. CASE \/ PoolCreated \/ OpenFile \/ CreateCompletionPort \/ Prepared \/ CreateMainQueue
             \/ TasksPosted \/ PhaseEnds \/ AllShutDown \/ AllJoined
    <2>1. UNCHANGED <<options, pool, local, contexts, printed, process>>
      BY <1>7
      DEF PoolCreated, OpenFile, CreateCompletionPort, Prepared, CreateMainQueue,
          TasksPosted, PhaseEnds, AllShutDown, AllJoined, Goto
    <2>2. step' \in {"open", "buffer_size", "operation_count"} \cup ReadSteps
      BY <1>7
      DEF PoolCreated, OpenFile, CreateCompletionPort, Prepared, CreateMainQueue,
          TasksPosted, PhaseEnds, AllShutDown, AllJoined, Goto, ReadSteps
    <2>3. QED
      BY <1>1, <2>1, <2>2 DEF TypeOK
  <1>8. CASE UseSuppliedBufferSize
    <2>1. options.buffer_size \in Nat
      BY <1>8 DEF UseSuppliedBufferSize, TypeOK, OptionsAssumption
    <2>2. QED
      BY <1>2, <1>8, <2>1 DEF UseSuppliedBufferSize, Goto, Locals
  <1>9. CASE GetIdealBufferSize
    <2>1. PICK n \in IdealSizes : Assign("buffer_size", n)
      BY <1>9 DEF GetIdealBufferSize
    <2>2. n \in Nat
      BY DEF OptionsAssumption
    <2>3. QED
      BY <1>2, <1>9, <2>1, <2>2 DEF GetIdealBufferSize, Goto, Locals
  <1>10. CASE ChooseQueueDepth
    <2> DEFINE depth == IF options.queue_depth # None THEN options.queue_depth ELSE Started
    <2>1. depth \in Nat
      BY <1>pool DEF TypeOK, OptionsAssumption
    <2>2. Assign("queue_depth", depth)
      BY <1>10 DEF ChooseQueueDepth
    <2> HIDE DEF depth
    <2>3. QED
      BY <1>2, <1>10, <2>1, <2>2 DEF ChooseQueueDepth, Goto, Locals
  <1>11. CASE GetFileSize
    <2>1. PICK n \in FileSizes : Assign("file_size", n)
      BY <1>11 DEF GetFileSize
    <2>2. n \in Nat
      BY DEF OptionsAssumption
    <2>3. QED
      BY <1>2, <1>11, <2>1, <2>2 DEF GetFileSize, Goto, Locals
  <1>12. CASE CountOperations
    <2>1. Operations \in 0 .. Dword - 1
      <3>1. local["file_size"] \in Nat /\ ContextSize \in Nat \ {0}
        BY <1>12, TypeFacts, WidthAssumption DEF CountOperations, Locals
      <3>2. (local["file_size"] + ContextSize - 1) \div ContextSize \in Nat
        BY <3>1, PartCount
      <3>3. QED
        BY <3>2, WidthAssumption, Division DEF Operations
    <2>2. Assign("operation_count", Operations)
      BY <1>12 DEF CountOperations
    <2>3. local' \in [Locals -> Nat] /\ local'["operation_count"] < Dword
      BY <1>0, <2>1, <2>2, AssignTypes, WidthAssumption DEF Locals
    <2>4. QED
      BY <1>1, <1>12, <2>3 DEF CountOperations, Goto, TypeOK
  <1>13. CASE ThreadThrows \/ DivideByZero \/ ReadCrashes
    BY <1>13 DEF ThreadThrows, DivideByZero, ReadCrashes, Dies, TypeOK
  <1>14. CASE CreateContext
    <2>1. Len(contexts) * ContextSize \in Nat
      BY TypeFacts, WidthAssumption
    <2>2. (Len(contexts) * ContextSize) % Dword \in 0 .. Dword - 1
      BY <2>1, WidthAssumption, Division
    <2>3. contexts' \in Seq([offset : 0..Dword - 1, size : 0..Dword - 1])
      <3> DEFINE S == [offset : 0..Dword - 1, size : 0..Dword - 1]
                 new == [offset |-> (Len(contexts) * ContextSize) % Dword,
                         size   |-> ContextSize]
      <3>1. contexts \in Seq(S)
        BY DEF TypeOK
      <3>2. new \in S
        BY <2>2, TypeFacts
      <3>3. contexts' = Append(contexts, new)
        BY <1>14 DEF CreateContext
      <3> HIDE DEF S, new
      <3>4. contexts' \in Seq(S)
        BY <3>1, <3>2, <3>3
      <3>5. QED
        BY <3>4 DEF S
    <2>4. QED
      BY <1>14, <2>3 DEF CreateContext, TypeOK
  <1>15. CASE PrintContext
    <2>1. printed' \in Nat
      <3>1. printed \in Nat /\ printed' = printed + 1
        BY <1>15 DEF PrintContext, TypeOK
      <3>2. QED
        BY <3>1
    <2>2. QED
      BY <1>15, <2>1 DEF PrintContext, TypeOK
  <1>16. CASE PostFails
    <2>1. CASE Return("returned -1")
      BY <2>1, LeaveTypes DEF Return
    <2>2. CASE Dies("crashed")
      BY <2>2 DEF Dies, TypeOK
    <2>3. QED
      BY <1>16, <2>1, <2>2 DEF PostFails
  <1>17. CASE UNCHANGED vars
    BY <1>17 DEF vars, TypeOK
  <1>18. QED
    BY <1>3, <1>4, <1>5, <1>6, <1>7, <1>8, <1>9, <1>10, <1>11, <1>12, <1>13, <1>14,
       <1>15, <1>16, <1>17
    DEF Next

(* The state of main keeps its types for any options, sizes and widths: in *)
(* particular what is stored in a DWORD fits it.                           *)
THEOREM TypeCorrect == Spec => []TypeOK
  BY TypesInit, TypesStep, HandleInvariance, OptionsAssumption, PTL DEF Spec

-----------------------------------------------------------------------------
(* The ways out of main.                                                   *)

(* How a count that starts from 0 compares. *)
LEMMA CountFacts ==
  /\ ~(0 > 0)
  /\ \A n \in Nat : 0 <= n /\ n <= n /\ ~(n < n) /\ (0 < n \/ n = 0)
  OBVIOUS

(* Until the pool is shut down no thread has been joined, nothing printed,  *)
(* and main has not returned.                                               *)
LEMMA EarlyExit ==
  ASSUME ExitInv, Started' \in Nat, UNCHANGED printed, pool'["joined"] = pool["joined"],
         step \notin {"join", "print", "end"}, step' \notin {"join", "print", "end"},
         process' \notin {"returned 0", "returned -1"}
  PROVE  ExitInv'
  <1>1. pool'["joined"] = 0 /\ printed' = 0
    BY DEF ExitInv
  <1>2. ~(printed' > 0)
    BY <1>1, CountFacts, Zenon
  <1>3. OutcomeTells'
    BY <1>2, Zenon DEF OutcomeTells
  <1>4. pool'["joined"] <= Started'
    BY <1>1, CountFacts, Zenon
  <1>5. QED
    BY <1>1, <1>3, <1>4, Zenon DEF ExitInv

(* A `return -1` comes before any join, so with a thread it terminates. *)
LEMMA LeaveEarly ==
  ASSUME ExitInv, Started \in Nat, step \notin {"join", "print", "end"}, NEW hs,
         LeaveMain("returned -1", hs)
  PROVE  ExitInv'
  <1>1. pool["joined"] = 0 /\ printed = 0
    BY DEF ExitInv
  <1>2. /\ step' = "end" /\ UNCHANGED <<pool, printed>> /\ Started' = Started
        /\ process' = IF pool["joined"] < Started THEN "terminated" ELSE "returned -1"
    BY DEF LeaveMain, Started
  <1>3. process' = "returned -1" => Started' = 0
    BY <1>1, <1>2, CountFacts, Zenon
  <1>4. process' # "returned 0" /\ ~(printed' > 0)
    <2>1. process' # "returned 0"
      BY <1>2
    <2>2. QED
      BY <1>1, <1>2, <2>1, CountFacts, Zenon
  <1>5. OutcomeTells'
    BY <1>3, <1>4, Zenon DEF OutcomeTells
  <1>6. pool'["joined"] <= Started'
    BY <1>2 DEF ExitInv
  <1>7. QED
    BY <1>2, <1>5, <1>6, Zenon DEF ExitInv

(* `return 0` leaves no thread, no buffer and no handle. *)
LEMMA ReturnZeroStep ==
  ASSUME ExitInv, TypeOK, HandleInv, HandleInv', ReturnZero
  PROVE  ExitInv'
  <1> DEFINE d1 == Destroy(handles, "read.port")
             d2 == Destroy(d1, "read.file")
             d3 == Destroy(d2, "file")
  <1>1. step = "print" /\ printed = Len(contexts) /\ LeaveMain("returned 0", d3)
    BY DEF ReturnZero, At, Return
  <1>2. pool["joined"] = Started /\ Started \in Nat
    BY <1>1 DEF ExitInv, EveryThread, TypeOK, Started, Counts
  <1>3. /\ step' = "end" /\ UNCHANGED <<pool, contexts, printed>> /\ handles' = d3
        /\ process' = IF pool["joined"] < Started THEN "terminated" ELSE "returned 0"
    BY <1>1 DEF LeaveMain
  <1>4. process' = "returned 0"
    BY <1>2, <1>3, CountFacts, Zenon
  <1>5. pool'["joined"] = Started' /\ Started' \in Nat
    BY <1>2, <1>3 DEF Started
  <1>6. d3.opened = handles.opened
    <2>1. handles \in HandleStates /\ {"read.port", "read.file", "file"} \subseteq Objects
      BY DEF HandleInv, HandleStates, Holdings, CallCounts, Objects
    <2>2. d1 \in HandleStates /\ d1.opened = handles.opened
      BY <2>1, DestroyFacts
    <2> HIDE DEF d1
    <2>3. d2 \in HandleStates /\ d2.opened = d1.opened
      BY <2>1, <2>2, DestroyFacts
    <2> HIDE DEF d2
    <2>4. d3.opened = d2.opened
      BY <2>1, <2>3, DestroyFacts
    <2>5. QED
      BY <2>2, <2>3, <2>4
  <1> HIDE DEF d1, d2, d3
  <1>7. ASSUME NEW h \in Handles
        PROVE  handles'.opened[h] = 1 /\ handles'.closed[h] = 1
    <2>1. Holders(step) = {"read.file", "read.port"}
      BY <1>1 DEF Holders, ReadSteps
    <2>2. Held = {"the file", "the port"}
      BY <2>1 DEF Held, HandleOf
    <2>3. h \in Held
      BY <2>2 DEF Handles
    <2>4. handles.opened[h] = 1
      BY <1>1, <2>3, HeldFacts
    <2>5. handles'.opened[h] = 1
      BY <1>3, <1>6, <2>4
    <2>6. handles'.closed[h] = handles'.opened[h]
      BY <1>3 DEF HandleInv, HandlesHeld
    <2>7. QED
      BY <2>5, <2>6
  <1>8. printed' = Len(contexts')
    BY <1>1, <1>3
  <1>9. OutcomeTells'
    BY <1>4, <1>5, <1>7, <1>8 DEF OutcomeTells, EveryThread
  <1>10. pool'["joined"] <= Started'
    BY <1>5, CountFacts, Zenon
  <1>11. QED
    BY <1>3, <1>9, <1>10, Zenon DEF ExitInv

(* Every step keeps the invariant of the ways out. *)
LEMMA ExitStep ==
  ExitInv /\ TypeOK /\ HandleInv /\ HandleInv' /\ [Next]_vars => ExitInv'
  <1> SUFFICES ASSUME ExitInv, TypeOK, HandleInv, HandleInv', [Next]_vars
               PROVE  ExitInv'
    OBVIOUS
  <1>1. pool \in [Counts -> Nat] /\ Started \in Nat /\ pool["joined"] \in Nat
    BY DEF TypeOK, Started, Counts
  <1>2. CASE \/ UseSuppliedThreadCount \/ CountCores \/ PoolCreated \/ OpenFile
             \/ UseSuppliedBufferSize \/ GetIdealBufferSize \/ ChooseQueueDepth
             \/ GetFileSize \/ CreateCompletionPort \/ CountOperations \/ CreateContext
             \/ Prepared \/ CreateMainQueue \/ TasksPosted \/ PhaseEnds
    <2>1. UNCHANGED <<pool, printed, process>> /\ process = "running"
      BY <1>2
      DEF UseSuppliedThreadCount, CountCores, PoolCreated, OpenFile, UseSuppliedBufferSize,
          GetIdealBufferSize, ChooseQueueDepth, GetFileSize, CreateCompletionPort,
          CountOperations, CreateContext, Prepared, CreateMainQueue, TasksPosted,
          PhaseEnds, At, Goto
    <2>2. step \notin {"join", "print", "end"} /\ step' \notin {"join", "print", "end"}
      BY <1>2
      DEF UseSuppliedThreadCount, CountCores, PoolCreated, OpenFile, UseSuppliedBufferSize,
          GetIdealBufferSize, ChooseQueueDepth, GetFileSize, CreateCompletionPort,
          CountOperations, CreateContext, Prepared, CreateMainQueue, TasksPosted,
          PhaseEnds, At, Goto
    <2>3. Started' \in Nat
      BY <1>1, <2>1 DEF Started
    <2>4. QED
      BY <2>1, <2>2, <2>3, EarlyExit
  <1>3. CASE StartThread \/ PostTask \/ ShutDownThread
    <2>1. PICK count \in Counts \ {"joined"} : pool' = [pool EXCEPT ![count] = @ + 1]
      BY <1>3 DEF StartThread, PostTask, ShutDownThread, NextThread, Counts
    <2>2. pool'["joined"] = pool["joined"] /\ Started' \in Nat
      BY <1>1, <2>1 DEF Started, Counts
    <2>3. /\ UNCHANGED <<step, printed, process>> /\ process = "running"
          /\ step \notin {"join", "print", "end"}
      BY <1>3 DEF StartThread, PostTask, ShutDownThread, At
    <2>4. QED
      BY <2>2, <2>3, EarlyExit
  <1>4. CASE ThreadThrows \/ DivideByZero \/ ReadCrashes \/ (At("post") /\ Dies("crashed"))
    <2>1. /\ UNCHANGED <<step, pool, printed>>
          /\ step \notin {"join", "print", "end"}
          /\ process' \notin {"returned 0", "returned -1"}
      BY <1>4 DEF ThreadThrows, DivideByZero, ReadCrashes, Dies, At
    <2>2. Started' \in Nat
      BY <1>1, <2>1 DEF Started
    <2>3. QED
      BY <2>1, <2>2, EarlyExit
  <1>5. CASE \/ PoolNotCreated \/ MainFails \/ CouldNotGetFileSize
             \/ CouldNotCreateCompletionPort \/ CouldNotCreateIOContexts
             \/ (At("post") /\ Return("returned -1"))
    BY <1>1, <1>5, LeaveEarly
    DEF PoolNotCreated, MainFails, CouldNotGetFileSize, CouldNotCreateCompletionPort,
        CouldNotCreateIOContexts, PrepareFails, Return, At
  <1>6. CASE PostFails
    BY <1>4, <1>5, <1>6 DEF PostFails
  <1>7. CASE AllShutDown
    <2>1. /\ step = "shutdown" /\ step' = "join"
          /\ UNCHANGED <<pool, printed, process>> /\ process = "running"
      BY <1>7 DEF AllShutDown, At, Goto
    <2>2. printed' = 0 /\ pool'["joined"] = 0 /\ Started' \in Nat
      BY <1>1, <2>1 DEF ExitInv, Started
    <2>3. OutcomeTells'
      BY <2>1, <2>2 DEF OutcomeTells
    <2>4. QED
      BY <2>1, <2>2, <2>3 DEF ExitInv
  <1>8. CASE JoinThread
    <2>1. /\ step = "join" /\ UNCHANGED <<step, printed, process>> /\ process = "running"
          /\ pool["joined"] < Started /\ pool' = [pool EXCEPT !["joined"] = @ + 1]
      BY <1>8 DEF JoinThread, NextThread, At
    <2>2. pool'["joined"] = pool["joined"] + 1 /\ Started' = Started
      BY <1>1, <2>1 DEF Started, Counts
    <2>3. pool'["joined"] <= Started'
      BY <1>1, <2>1, <2>2
    <2>4. printed' = 0
      BY <2>1 DEF ExitInv
    <2>5. OutcomeTells'
      BY <2>1, <2>4 DEF OutcomeTells
    <2>6. QED
      BY <2>1, <2>3, <2>4, <2>5 DEF ExitInv
  <1>9. CASE AllJoined
    <2>1. /\ step = "join" /\ step' = "print"
          /\ UNCHANGED <<pool, printed, process>> /\ process = "running"
          /\ EveryThread("joined")
      BY <1>9 DEF AllJoined, At, Goto
    <2>2. EveryThread("joined")'
      BY <2>1 DEF EveryThread, Started
    <2>3. OutcomeTells'
      BY <2>1, <2>2 DEF OutcomeTells
    <2>4. pool'["joined"] <= Started'
      BY <1>1, <2>1 DEF ExitInv, Started
    <2>5. QED
      BY <2>1, <2>2, <2>3, <2>4 DEF ExitInv
  <1>10. CASE PrintContext
    <2>1. /\ step = "print" /\ UNCHANGED <<step, pool, process>> /\ process = "running"
      BY <1>10 DEF PrintContext, At
    <2>2. EveryThread("joined")'
      BY <2>1 DEF ExitInv, EveryThread, Started
    <2>3. OutcomeTells'
      BY <2>1, <2>2 DEF OutcomeTells
    <2>4. pool'["joined"] <= Started'
      BY <1>1, <2>1 DEF ExitInv, Started
    <2>5. QED
      BY <2>1, <2>2, <2>3, <2>4 DEF ExitInv
  <1>11. CASE ReturnZero
    BY <1>11, ReturnZeroStep
  <1>12. CASE UNCHANGED vars
    BY <1>12 DEF vars, ExitInv, OutcomeTells, EveryThread, Started
  <1>13. QED
    BY <1>2, <1>3, <1>4, <1>5, <1>6, <1>7, <1>8, <1>9, <1>10, <1>11, <1>12 DEF Next

(* For all options and sizes and whichever calls fail: a run that returns 0 *)
(* has joined the threads it started, freed the buffers it printed and      *)
(* closed the handles it opened; a run that returns -1 had no thread; and   *)
(* no buffer is freed before the threads are gone.                          *)
THEOREM OutcomesTell == Spec => []OutcomeTells
  <1>1. Init => ExitInv
    <2> SUFFICES ASSUME Init
                 PROVE  ExitInv
      OBVIOUS
    <2>1. /\ pool["joined"] = 0 /\ Started = 0 /\ printed = 0
          /\ step = "pool" /\ process = "running"
      BY DEF Init, Counts, Started
    <2>2. QED
      BY <2>1 DEF ExitInv, OutcomeTells
  <1>2. ExitInv => OutcomeTells
    BY DEF ExitInv
  <1>3. QED
    BY <1>1, <1>2, ExitStep, TypeCorrect, HandleInvariance, PTL DEF Spec

-----------------------------------------------------------------------------
(* A step that leaves the contexts, the sizes and the count alone keeps    *)
(* what is said of them.                                                   *)
LEMMA SameContexts ==
  ASSUME ContextInv, TypeOK', UNCHANGED <<local, contexts>>,
         \/ step' = step
         \/ step' = "end"
         \/ step \in ReadSteps /\ step' \in ReadSteps
         \/ /\ step = "contexts" /\ Len(contexts) = local["operation_count"]
            /\ step' = "mainQueue"
  PROVE  ContextInv'
  BY DEF ContextInv, ContextSize, Operations, ReadSteps

(* A step before the contexts are made. *)
LEMMA NoContextsYet ==
  ASSUME ContextInv, TypeOK', UNCHANGED contexts,
         step \notin {"contexts", "end"} \cup ReadSteps,
         step' \notin {"contexts"} \cup ReadSteps
  PROVE  ContextInv'
  <1>1. contexts' = <<>>
    BY DEF ContextInv
  <1>2. DOMAIN contexts' = {}
    BY <1>1
  <1>3. QED
    BY <1>1, <1>2 DEF ContextInv

(* Every step keeps the invariant of the contexts. *)
LEMMA ContextStep == ContextInv /\ TypeOK' /\ [Next]_vars => ContextInv'
  <1> SUFFICES ASSUME ContextInv, TypeOK', [Next]_vars
               PROVE  ContextInv'
    OBVIOUS
  <1>1. CASE \/ UseSuppliedThreadCount \/ CountCores \/ StartThread \/ PoolCreated
             \/ OpenFile \/ UseSuppliedBufferSize \/ GetIdealBufferSize
             \/ ChooseQueueDepth \/ GetFileSize \/ CreateCompletionPort
    <2>1. /\ step \notin {"contexts", "end"} \cup ReadSteps
          /\ step' \notin {"contexts"} \cup ReadSteps
          /\ UNCHANGED contexts
      BY <1>1
      DEF UseSuppliedThreadCount, CountCores, StartThread, PoolCreated, OpenFile,
          UseSuppliedBufferSize, GetIdealBufferSize, ChooseQueueDepth, GetFileSize,
          CreateCompletionPort, At, Goto, ReadSteps
    <2>2. QED
      BY <2>1, NoContextsYet
  <1>2. CASE \/ PoolNotCreated \/ MainFails \/ ReturnZero \/ CouldNotGetFileSize
             \/ CouldNotCreateCompletionPort \/ CouldNotCreateIOContexts
             \/ Return("returned -1")
    <2>1. step' = "end" /\ UNCHANGED <<local, contexts>>
      BY <1>2
      DEF PoolNotCreated, MainFails, ReturnZero, CouldNotGetFileSize,
          CouldNotCreateCompletionPort, CouldNotCreateIOContexts, PrepareFails, Return,
          LeaveMain
    <2>2. QED
      BY <2>1, SameContexts
  <1>3. CASE CountOperations
    <2>1. contexts' = <<>> /\ step' = "contexts" /\ ContextSize # 0
      BY <1>3 DEF CountOperations, At, Goto, ContextInv, ReadSteps
    <2>2. local' = [local EXCEPT !["operation_count"] = Operations]
      BY <1>3 DEF CountOperations, Assign
    <2>3. /\ local'["buffer_size"] = local["buffer_size"]
          /\ local'["file_size"] = local["file_size"]
          /\ local'["operation_count"] = Operations
      BY <2>2 DEF ContextInv, TypeOK, Locals
    <2>4. ContextSize' = ContextSize
      BY <2>3 DEF ContextSize
    <2>5. Operations' = Operations
      BY <2>3, <2>4 DEF Operations
    <2>6. local'["operation_count"] \in Nat
      BY DEF TypeOK, Locals
    <2>7. DOMAIN contexts' = {} /\ Len(contexts') = 0
      BY <2>1
    <2>8. QED
      BY <2>1, <2>3, <2>4, <2>5, <2>6, <2>7 DEF ContextInv, ReadSteps
  <1>4. CASE CreateContext
    <2> DEFINE n == Len(contexts)
    <2>1. /\ step = "contexts" /\ UNCHANGED <<step, local>>
          /\ n < local["operation_count"]
          /\ contexts' = Append(contexts, [offset |-> (n * ContextSize) % Dword,
                                           size |-> ContextSize])
      BY <1>4 DEF CreateContext, At
    <2>2. contexts \in Seq([offset : 0..Dword - 1, size : 0..Dword - 1])
      BY DEF ContextInv, TypeOK
    <2>3. /\ n \in Nat /\ Len(contexts') = n + 1 /\ DOMAIN contexts' = 1 .. n + 1
          /\ \A i \in 1 .. n : contexts'[i] = contexts[i]
          /\ contexts'[n + 1] = [offset |-> (n * ContextSize) % Dword, size |-> ContextSize]
      BY <2>1, <2>2
    <2>4. ContextSize' = ContextSize /\ Operations' = Operations
      BY <2>1 DEF ContextSize, Operations
    <2>5. local["operation_count"] \in Nat
      BY DEF ContextInv, TypeOK, Locals
    <2>6. \A i \in 1 .. n :
            contexts[i] = [offset |-> ((i - 1) * ContextSize) % Dword, size |-> ContextSize]
      BY <2>2 DEF ContextInv
    <2> HIDE DEF n
    <2>7. \A i \in 1 .. n + 1 :
            contexts'[i] = [offset |-> ((i - 1) * ContextSize) % Dword, size |-> ContextSize]
      <3> TAKE i \in 1 .. n + 1
      <3>1. CASE i \in 1 .. n
        BY <2>3, <2>6, <3>1
      <3>2. CASE i = n + 1
        <4>1. i - 1 = n
          BY <2>3, <3>2
        <4>2. QED
          BY <2>3, <3>2, <4>1
      <3>3. QED
        BY <2>3, <3>1, <3>2
    <2>8. Len(contexts') <= local["operation_count"]
      BY <2>1, <2>3, <2>5
    <2>9. QED
      BY <2>1, <2>3, <2>4, <2>7, <2>8 DEF ContextInv
  <1>5. CASE Prepared
    <2>1. /\ UNCHANGED <<local, contexts>> /\ step' = "mainQueue"
          /\ step = "contexts" /\ Len(contexts) = local["operation_count"]
      BY <1>5 DEF Prepared, At, Goto
    <2>2. QED
      BY <2>1, SameContexts
  <1>6. CASE CreateMainQueue \/ TasksPosted \/ PhaseEnds \/ AllShutDown \/ AllJoined
    <2>1. UNCHANGED <<local, contexts>> /\ step \in ReadSteps /\ step' \in ReadSteps
      BY <1>6 DEF CreateMainQueue, TasksPosted, PhaseEnds, AllShutDown, AllJoined, At, Goto,
                  ReadSteps
    <2>2. QED
      BY <2>1, SameContexts
  <1>7. CASE \/ PostTask \/ ShutDownThread \/ JoinThread \/ PrintContext
             \/ ThreadThrows \/ DivideByZero \/ ReadCrashes \/ Dies("crashed")
    <2>1. UNCHANGED <<step, local, contexts>>
      BY <1>7 DEF PostTask, ShutDownThread, JoinThread, PrintContext, ThreadThrows,
                  DivideByZero, ReadCrashes, Dies
    <2>2. QED
      BY <2>1, SameContexts
  <1>8. CASE PostFails
    BY <1>2, <1>7, <1>8 DEF PostFails
  <1>9. CASE UNCHANGED vars
    BY <1>9, SameContexts DEF vars
  <1>10. QED
    BY <1>1, <1>2, <1>3, <1>4, <1>5, <1>6, <1>7, <1>8, <1>9 DEF Next

(* It holds in every reachable state. *)
LEMMA ContextInvariance == Spec => []ContextInv
  <1>1. Init => ContextInv
    BY TypesInit DEF Init, ContextInv, ReadSteps
  <1>2. QED
    BY <1>1, ContextStep, TypeCorrect, PTL DEF Spec

-----------------------------------------------------------------------------
(* Sizes that a DWORD can hold are used as they are: the contexts are as   *)
(* many as the file has parts, and each starts where it should.            *)
LEMMA FittingContexts ==
  ASSUME ContextInv, step \in ReadSteps,
         local["file_size"] < Dword, local["buffer_size"] < Dword
  PROVE  /\ local["buffer_size"] \in Nat \ {0} /\ local["file_size"] \in Nat
         /\ Len(contexts) \in Nat /\ DOMAIN contexts = 1 .. Len(contexts)
         /\ \A c \in Nat : c < Len(contexts) <=> c * local["buffer_size"] < local["file_size"]
         /\ \A i \in DOMAIN contexts :
              /\ contexts[i].offset = (i - 1) * local["buffer_size"]
              /\ contexts[i].size = local["buffer_size"]
  <1> DEFINE b == local["buffer_size"]
             f == local["file_size"]
             parts == (f + b - 1) \div b
             n == Len(contexts)
  <1>1. f \in Nat /\ b \in Nat /\ Dword \in Nat \ {0}
    BY TypeFacts, WidthAssumption DEF ContextInv, Locals
  <1>2. ContextSize = b
    BY <1>1, Fits DEF ContextSize
  <1>3. b # 0 /\ n = Operations
    BY <1>2 DEF ContextInv
  <1>4. Operations = parts % Dword
    BY <1>2 DEF Operations
  <1>5. parts \in Nat /\ \A c \in Nat : c < parts <=> c * b < f
    BY <1>1, <1>3, PartCount
  <1>6. n \in Nat /\ DOMAIN contexts = 1 .. n
    BY TypeFacts DEF ContextInv
  <1>7. \A i \in DOMAIN contexts :
          contexts[i] = [offset |-> ((i - 1) * b) % Dword, size |-> b]
    BY <1>2 DEF ContextInv
  <1>8. f < Dword
    OBVIOUS
  <1> HIDE DEF b, f, parts, n
  <1>9. ~(f < parts)
    <2>1. f * b >= f
      BY <1>1, <1>3
    <2>2. QED
      BY <1>1, <1>5, <2>1
  <1>10. n = parts
    <2>1. parts < Dword
      BY <1>1, <1>5, <1>8, <1>9
    <2>2. QED
      BY <1>1, <1>3, <1>4, <1>5, <2>1, Fits
  <1>11. ASSUME NEW i \in DOMAIN contexts
         PROVE  contexts[i].offset = (i - 1) * b /\ contexts[i].size = b
    <2>1. i - 1 \in Nat /\ i - 1 < parts
      BY <1>6, <1>10
    <2>2. (i - 1) * b < f /\ (i - 1) * b \in Nat
      BY <1>1, <1>5, <2>1
    <2>3. ((i - 1) * b) % Dword = (i - 1) * b
      BY <1>1, <1>8, <2>2, Fits
    <2>4. QED
      BY <1>7, <2>3
  <1>12. QED
    BY <1>1, <1>3, <1>5, <1>6, <1>10, <1>11 DEF b, f, n

(* Whatever its size and that of the buffers, as long as a DWORD holds     *)
(* them: every byte of the file is in the buffer of exactly one context.   *)
THEOREM ContextsTile == Spec => []ContextsTileFile
  <1>1. ContextInv => ContextsTileFile
    <2> SUFFICES ASSUME ContextInv, step \in ReadSteps,
                        local["file_size"] < Dword, local["buffer_size"] < Dword,
                        NEW byte \in 0 .. local["file_size"] - 1
                 PROVE  Cardinality({i \in DOMAIN contexts :
                          /\ contexts[i].offset <= byte
                          /\ byte < contexts[i].offset + contexts[i].size}) = 1
      BY DEF ContextsTileFile
    <2> DEFINE b == local["buffer_size"]
               f == local["file_size"]
               n == Len(contexts)
               d == byte \div b
               r == byte % b
               Holding == {i \in DOMAIN contexts :
                             /\ contexts[i].offset <= byte
                             /\ byte < contexts[i].offset + contexts[i].size}
    <2>1. /\ b \in Nat \ {0} /\ f \in Nat /\ n \in Nat /\ DOMAIN contexts = 1 .. n
          /\ \A c \in Nat : c < n <=> c * b < f
          /\ \A i \in DOMAIN contexts : contexts[i].offset = (i - 1) * b /\ contexts[i].size = b
      BY FittingContexts
    <2>2. byte \in Nat /\ byte < f
      BY <2>1
    <2>3. d \in Nat /\ r \in 0 .. b - 1 /\ r = byte - b * d
      BY <2>1, <2>2, Division
    <2> HIDE DEF b, f, n, d, r
    <2>4. d + 1 \in Holding
      <3>1. d * b <= byte /\ byte < d * b + b
        BY <2>1, <2>2, <2>3
      <3>2. d < n
        BY <2>1, <2>2, <2>3, <3>1
      <3>3. d + 1 \in DOMAIN contexts /\ (d + 1) - 1 = d
        BY <2>1, <2>3, <3>2
      <3>4. contexts[d + 1].offset = d * b /\ contexts[d + 1].size = b
        BY <2>1, <3>3
      <3>5. QED
        BY <3>1, <3>3, <3>4
    <2>5. ASSUME NEW i \in Holding
          PROVE  i = d + 1
      <3>1. i \in 1 .. n /\ (i - 1) * b <= byte /\ byte < (i - 1) * b + b
        BY <2>1
      <3>2. PICK c \in Nat : c = i - 1
        BY <2>1, <3>1
      <3>3. PICK s \in 0 .. b - 1 : b * c + s = byte
        <4>1. byte - c * b \in 0 .. b - 1
          BY <2>1, <2>2, <3>1, <3>2
        <4>2. b * c + (byte - c * b) = byte
          BY <2>1, <2>2
        <4>3. QED
          BY <4>1, <4>2
      <3>4. b * c + s = b * d + r
        BY <2>1, <2>2, <2>3, <3>3
      <3>5. c = d
        <4>1. c \in Int /\ d \in Int /\ b \in Nat \ {0}
          BY <2>1, <2>3
        <4>2. QED
          BY <2>3, <3>4, <4>1, OneQuotient
      <3>6. QED
        BY <2>1, <3>1, <3>2, <3>5
    <2>6. Holding = {d + 1}
      BY <2>4, <2>5
    <2>7. QED
      BY <2>6, FS_Singleton
  <1>2. QED
    BY <1>1, ContextInvariance, PTL

(* For every queue depth: a task that is told by its own sums of offsets   *)
(* that the file goes on finds the context that starts there, and one that *)
(* is told that it is past the end has no further context.                 *)
THEOREM OffsetsFollowContexts == Spec => []ChainsFollowContexts
  <1>1. ContextInv => ChainsFollowContexts
    <2> SUFFICES ASSUME ContextInv, step = "measure",
                        local["file_size"] < Dword, local["buffer_size"] < Dword,
                        local["queue_depth"] * local["buffer_size"] < SizeT,
                        local["queue_depth"] * local["buffer_size"] + local["file_size"]
                          < LongLong \div 2,
                        NEW i \in DOMAIN contexts
                 PROVE  LET next   == i + local["queue_depth"]
                            offset == NewReadOffset(contexts[i].offset)
                        IN  /\ offset < local["file_size"] =>
                                 next \in DOMAIN contexts /\ contexts[next].offset = offset
                            /\ offset > local["file_size"] => next \notin DOMAIN contexts
      BY DEF ChainsFollowContexts
    <2> DEFINE b == local["buffer_size"]
               f == local["file_size"]
               q == local["queue_depth"]
               n == Len(contexts)
               half == LongLong \div 2
               c == i - 1
    <2>1. /\ b \in Nat \ {0} /\ f \in Nat /\ n \in Nat /\ DOMAIN contexts = 1 .. n
          /\ \A k \in Nat : k < n <=> k * b < f
          /\ \A k \in DOMAIN contexts : contexts[k].offset = (k - 1) * b
      <3>1. step \in ReadSteps
        BY DEF ReadSteps
      <3>2. QED
        BY <3>1, FittingContexts
    <2>2. q \in Nat
      BY TypeFacts DEF ContextInv, Locals
    <2>3. half \in Nat /\ half <= LongLong /\ LongLong \in Nat \ {0} /\ SizeT \in Nat \ {0}
      <3>1. LongLong \in Nat \ {0} /\ SizeT \in Nat \ {0}
        BY WidthAssumption
      <3>2. QED
        BY <3>1
    <2>4. q * b < SizeT /\ q * b + f < half
      OBVIOUS
    <2>5. ReadInterval = (q * b) % SizeT
      BY DEF ReadInterval
    <2>6. c \in Nat /\ c < n /\ contexts[i].offset = c * b /\ i = c + 1
      <3>1. contexts[i].offset = c * b
        BY <2>1
      <3>2. i \in 1 .. n
        BY <2>1
      <3> HIDE DEF b, n
      <3>3. QED
        <4>1. n \in Nat
          BY <2>1
        <4>2. c \in Nat /\ c < n /\ i = c + 1
          BY <3>2, <4>1
        <4>3. QED
          BY <3>1, <4>2
    <2> HIDE DEF b, f, q, n, half, c
    <2>7. q * b \in Nat /\ c * b \in Nat /\ c * b < f /\ (c + q) * b = c * b + q * b
      <3>1. c * b < f
        BY <2>1, <2>6
      <3>2. b \in Nat /\ c \in Nat /\ q \in Nat
        BY <2>1, <2>2, <2>6
      <3>3. q * b \in Nat /\ c * b \in Nat /\ (c + q) * b = c * b + q * b
        BY <3>2
      <3>4. QED
        BY <3>1, <3>3
    <2>8. ReadInterval = q * b
      BY <2>3, <2>4, <2>5, <2>7, Fits
    <2>9. NewReadOffset(contexts[i].offset) = (c + q) * b
      <3>1. c * b + q * b \in Nat /\ c * b + q * b < half /\ c * b + q * b < LongLong
        BY <2>1, <2>3, <2>4, <2>7
      <3>2. (contexts[i].offset + ReadInterval) % LongLong = (c + q) * b
        BY <2>3, <2>6, <2>7, <2>8, <3>1, Fits
      <3>3. (c + q) * b < half
        BY <2>7, <3>1
      <3>4. QED
        BY <3>2, <3>3 DEF NewReadOffset, Signed, half
    <2>10. c + q \in Nat /\ i + q = (c + q) + 1 /\ (i + q) - 1 = c + q
      BY <2>2, <2>6
    <2>11. (c + q) * b < f => i + q \in DOMAIN contexts /\ contexts[i + q].offset = (c + q) * b
      <3> SUFFICES ASSUME (c + q) * b < f
                   PROVE  i + q \in DOMAIN contexts /\ contexts[i + q].offset = (c + q) * b
        OBVIOUS
      <3>1. c + q < n
        BY <2>1, <2>10
      <3>2. i + q \in DOMAIN contexts
        BY <2>1, <2>10, <3>1
      <3>3. QED
        BY <2>1, <2>10, <3>2
    <2>12. (c + q) * b > f => i + q \notin DOMAIN contexts
      <3> SUFFICES ASSUME (c + q) * b > f
                   PROVE  i + q \notin DOMAIN contexts
        OBVIOUS
      <3>1. ~((c + q) * b < f)
        <4>1. (c + q) * b \in Nat /\ f \in Nat
          BY <2>1, <2>7
        <4>2. QED
          BY <4>1
      <3>2. ~(c + q < n)
        BY <2>1, <2>10, <3>1
      <3>3. QED
        BY <2>1, <2>10, <3>2
    <2>13. QED
      BY <2>9, <2>11, <2>12 DEF f, q
  <1>2. QED
    BY <1>1, ContextInvariance, PTL

=============================================================================
