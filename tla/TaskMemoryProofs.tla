-------------------------- MODULE TaskMemoryProofs --------------------------
(***************************************************************************)
(* For any number of cores, tasks, frames and images: no frame is lost,    *)
(* until an allocation fails every frame has one owner, every page of a    *)
(* task lies in user space, and the first task runs in its own memory.     *)
(***************************************************************************)
EXTENDS TaskMemory, TLAPS

(* Quotient and remainder. *)
LEMMA Division ==
  ASSUME NEW x \in Nat, NEW p \in Nat \ {0}
  PROVE  /\ x \div p \in Nat /\ x % p \in 0..(p - 1)
         /\ x = p * (x \div p) + (x % p)
         /\ p * (x \div p) <= x
  OBVIOUS

(* Multiplication is monotonic. *)
LEMMA Times ==
  ASSUME NEW p \in Nat, NEW m \in Nat, NEW n \in Nat, m <= n
  PROVE  p * m \in Nat /\ p * n \in Nat /\ p * m <= p * n
  OBVIOUS

Mapping == [page : Page, frame : Frame]

(* What the loader and the cores hold are sequences of mappings to user space. *)
Types ==
  /\ free \subseteq Frame /\ kernel \subseteq Frame
  /\ segments \in Seq(ProgramHeader) /\ want \in Nat
  /\ allocated \in Seq(Frame)
  /\ mappings \in Seq(Mapping)
  /\ tasks \in Seq(Seq(Mapping))
  /\ dropping \in [Core -> Seq(Mapping)]
  /\ running \in [Core -> Seq(Mapping)]

(* The entry that is being allocated has passed the checks, or is the stack; the
   pages it has and those it still wants are its pages. *)
LoadInv ==
  /\ segments # <<>> => segments[Len(segments)] = Stack
  /\ loader = NONE => at = "idle"
  /\ at \in {"idle", "load", "drop"} => allocated = <<>>
  /\ at = "palloc" => /\ segments # <<>> /\ ~InsecureLoad(Head(segments))
                      /\ want + Len(allocated) = pgn(Head(segments))

(* Every frame is free, or belongs to the kernel or to a map. *)
Kept ==
  \A x \in Frame :
    \/ x \in free \/ x \in kernel \/ x \in FramesOf(mappings)
    \/ \E i \in DOMAIN tasks : x \in FramesOf(tasks[i])
    \/ \E c \in Core : x \in FramesOf(dropping[c])

(* The frames of a failed allocation are freed only after it has failed. *)
FailedInv == at = "pfree_all" => failed

Memory == Types /\ FailedInv /\ Kept /\ OwnedOnce

IInv == LoadInv /\ Memory

----------------------------------------------------------------------------
(* Task::exec: the k-th page of an entry begins before the entry ends. *)
LEMMA PageBound ==
  ASSUME NEW p \in Nat \ {0}, NEW vadr \in Nat, NEW mem \in Nat, NEW k \in Nat,
         k < ((vadr % p) + mem + p - 1) \div p
  PROVE  ((vadr \div p) + k) * p < vadr + mem
<1> DEFINE q == vadr \div p
           off == vadr % p
           n == (off + mem + p - 1) \div p
<1>1. q \in Nat /\ off \in Nat /\ vadr = p * q + off
  BY Division
<1>2. off + mem + p - 1 \in Nat
  BY <1>1
<1>3. n \in Nat /\ p * n <= off + mem + p - 1
  BY Zenon, <1>2, Division
<1>4. k + 1 <= n
  BY <1>3
<1> HIDE DEF q, off, n
<1>5. p * (k + 1) <= p * n
  BY <1>3, <1>4
<1>6. p * (k + 1) = p * k + p
  OBVIOUS
<1>7. p * k < off + mem
  <2>1. p * k \in Nat /\ p * n \in Nat
    BY <1>3
  <2> QED
    BY <1>1, <1>3, <1>5, <1>6, <2>1
<1>8. (q + k) * p = p * q + p * k
  BY <1>1
<1>9. (q + k) * p < vadr + mem
  <2>1. p * k \in Nat /\ p * q \in Nat
    BY <1>1
  <2> QED
    BY <1>1, <1>7, <1>8, <2>1
<1> QED
  BY Zenon, <1>9 DEF q

(* Where the frames of a map are. *)
LEMMA InMap ==
  \A map, x : x \in FramesOf(map) <=> \E i \in DOMAIN map : x = map[i].frame
  BY Zenon DEF FramesOf, Range

(* A map that owns nothing. *)
LEMMA EmptyMap == FramesOf(<<>>) = {} /\ Distinct(<<>>) /\ <<>> \in Seq(Mapping)
  BY DEF FramesOf, Distinct, Range

(* The frames of a map are frames. *)
LEMMA MapFrames ==
  ASSUME NEW map \in Seq(Mapping)
  PROVE  FramesOf(map) \subseteq Frame
<1>1. \A i \in DOMAIN map : map[i] \in Mapping
  OBVIOUS
<1> QED
  BY <1>1, InMap DEF Mapping

(* add_raw: the frames of a map with one more mapping. *)
LEMMA AppendMap ==
  ASSUME NEW map \in Seq(Mapping), NEW m \in Mapping
  PROVE  /\ Append(map, m) \in Seq(Mapping)
         /\ FramesOf(Append(map, m)) = FramesOf(map) \cup {m.frame}
         /\ Distinct(map) /\ m.frame \notin FramesOf(map)
              => Distinct(Append(map, m))
<1>1. /\ Append(map, m) \in Seq(Mapping)
      /\ DOMAIN Append(map, m) = 1..(Len(map) + 1)
      /\ \A i \in 1..Len(map) : Append(map, m)[i] = map[i]
      /\ Append(map, m)[Len(map) + 1] = m
      /\ DOMAIN map = 1..Len(map) /\ Len(map) \in Nat
  OBVIOUS
<1> DEFINE longer == Append(map, m)
<1> HIDE DEF longer
<1>2. 1..(Len(map) + 1) = 1..Len(map) \cup {Len(map) + 1}
  BY <1>1
<1>3. FramesOf(longer) = FramesOf(map) \cup {m.frame}
  BY <1>1, <1>2 DEF FramesOf, Range, longer
<1>4. ASSUME Distinct(map), m.frame \notin FramesOf(map) PROVE Distinct(longer)
  BY <1>1, <1>2, <1>4 DEF Distinct, FramesOf, Range, longer
<1> QED
  BY Zenon, <1>1, <1>3, <1>4 DEF longer

(* Drop for MemoryMapping: the frames of a map without its first mapping. *)
LEMMA TailMap ==
  ASSUME NEW map \in Seq(Mapping), map # <<>>
  PROVE  /\ Tail(map) \in Seq(Mapping) /\ Head(map) \in Mapping
         /\ FramesOf(map) = FramesOf(Tail(map)) \cup {Head(map).frame}
         /\ Distinct(map) => /\ Distinct(Tail(map))
                             /\ Head(map).frame \notin FramesOf(Tail(map))
<1> DEFINE rest == Tail(map) n == Len(map)
<1>1. /\ rest \in Seq(Mapping) /\ Head(map) \in Mapping /\ Head(map) = map[1]
      /\ n \in Nat \ {0} /\ DOMAIN map = 1..n /\ DOMAIN rest = 1..(n - 1)
      /\ \A i \in 1..(n - 1) : rest[i] = map[i + 1]
  OBVIOUS
<1> HIDE DEF rest, n
<1>2. \A j \in 1..n : j = 1 \/ \E i \in 1..(n - 1) : j = i + 1
  <2>1. \A j \in 1..n : j = 1 \/ (j - 1 \in 1..(n - 1) /\ j = (j - 1) + 1)
    BY <1>1
  <2> QED
    BY Zenon, <2>1
<1>3. ASSUME NEW x PROVE x \in FramesOf(map) <=> x \in FramesOf(rest) \/ x = map[1].frame
  <2>1. \A i \in 1..(n - 1) : i + 1 \in 1..n
    BY <1>1
  <2>2. x \in FramesOf(rest) <=> \E i \in 1..(n - 1) : x = map[i + 1].frame
    <3>1. x \in FramesOf(rest) <=> \E i \in 1..(n - 1) : x = rest[i].frame
      <4>1. x \in FramesOf(rest) <=> \E i \in DOMAIN rest : x = rest[i].frame
        BY InMap
      <4> QED
        BY Zenon, <1>1, <4>1
    <3>2. \A i \in 1..(n - 1) : rest[i].frame = map[i + 1].frame
      BY Zenon, <1>1
    <3> QED
      BY Zenon, <3>1, <3>2
  <2>3. x \in FramesOf(map) <=> \E j \in 1..n : x = map[j].frame
    BY <1>1, InMap
  <2>4. 1 \in 1..n
    BY <1>1
  <2> QED
    BY Zenon, <1>2, <2>1, <2>2, <2>3, <2>4
<1>4. ASSUME Distinct(map) PROVE Distinct(rest)
  <2> SUFFICES ASSUME NEW i \in 1..(n - 1), NEW j \in 1..(n - 1), i # j
               PROVE  rest[i].frame # rest[j].frame
    BY Zenon, <1>1 DEF Distinct
  <2>1. i + 1 \in 1..n /\ j + 1 \in 1..n /\ i + 1 # j + 1
    BY <1>1
  <2>2. rest[i] = map[i + 1] /\ rest[j] = map[j + 1]
    BY Zenon, <1>1
  <2>3. map[i + 1].frame # map[j + 1].frame
    BY Zenon, <1>1, <1>4, <2>1 DEF Distinct
  <2> QED
    BY Zenon, <2>2, <2>3
<1>5. ASSUME Distinct(map), map[1].frame \in FramesOf(rest) PROVE FALSE
  <2>1. PICK i \in 1..(n - 1) : map[1].frame = rest[i].frame
    BY <1>1, <1>5, InMap
  <2>2. 1 \in 1..n /\ i + 1 \in 1..n /\ i + 1 # 1
    BY <1>1
  <2> QED
    BY <1>1, <1>5, <2>1, <2>2 DEF Distinct
<1> QED
  BY Zenon, <1>1, <1>3, <1>4, <1>5 DEF rest

(* t has the entries of s other than the i-th, each of them once. *)
Without(s, i, t) ==
  \E f \in [DOMAIN t -> DOMAIN s \ {i}] :
    /\ \A j \in DOMAIN t : t[j] = s[f[j]]
    /\ \A j, k \in DOMAIN t : j # k => f[j] # f[k]
    /\ \A k \in DOMAIN s \ {i} : \E j \in DOMAIN t : f[j] = k

(* exit_current: Vec::remove keeps every other task, and no task twice. *)
LEMMA RemoveTask ==
  ASSUME NEW S, NEW s \in Seq(S), NEW i \in DOMAIN s, NEW t, t = RemoveAt(s, i)
  PROVE  t \in Seq(S) /\ Without(s, i, t)
<1> DEFINE a == SubSeq(s, 1, i - 1) b == SubSeq(s, i + 1, Len(s)) n == Len(s)
<1>1. /\ a \in Seq(S) /\ Len(a) = i - 1
      /\ \A j \in 1..(i - 1) : a[j] = s[j]
  OBVIOUS
<1>2. /\ b \in Seq(S) /\ Len(b) = n - i
      /\ \A j \in 1..(n - i) : b[j] = s[j + i]
  OBVIOUS
<1>3. n \in Nat /\ DOMAIN s = 1..n /\ i \in 1..n
  OBVIOUS
<1> HIDE DEF a, b, n
<1>4. /\ a \o b \in Seq(S) /\ DOMAIN (a \o b) = 1..(Len(a) + Len(b))
      /\ \A j \in 1..(Len(a) + Len(b)) :
           (a \o b)[j] = IF j <= Len(a) THEN a[j] ELSE b[j - Len(a)]
  <2> a \in Seq(S) /\ b \in Seq(S)
    BY Zenon, <1>1, <1>2
  <2> QED
    OBVIOUS
<1>5. /\ t \in Seq(S) /\ DOMAIN t = 1..(n - 1)
      /\ \A j \in 1..(n - 1) : t[j] = IF j < i THEN s[j] ELSE s[j + 1]
  <2>1. Len(a) = i - 1 /\ Len(a) + Len(b) = n - 1
    BY <1>1, <1>2, <1>3
  <2>2. /\ t \in Seq(S) /\ DOMAIN t = 1..(n - 1)
        /\ \A j \in 1..(n - 1) : t[j] = IF j <= i - 1 THEN a[j] ELSE b[j - (i - 1)]
    <3>1. t = a \o b
      BY Zenon DEF RemoveAt, a, b
    <3> QED
      BY Zenon, <1>4, <2>1, <3>1
  <2>3. ASSUME NEW j \in 1..(n - 1), j < i PROVE t[j] = s[j]
    BY <1>1, <1>3, <2>2, <2>3
  <2>4. ASSUME NEW j \in 1..(n - 1), ~(j < i) PROVE t[j] = s[j + 1]
    <3>1. j - (i - 1) \in 1..(n - i) /\ (j - (i - 1)) + i = j + 1 /\ ~(j <= i - 1)
      BY <1>3, <2>4
    <3>2. t[j] = b[j - (i - 1)]
      BY Zenon, <2>2, <3>1
    <3>3. b[j - (i - 1)] = s[(j - (i - 1)) + i]
      BY Zenon, <1>2, <3>1
    <3> QED
      BY Zenon, <3>1, <3>2, <3>3
  <2> QED
    BY Zenon, <2>2, <2>3, <2>4
<1> DEFINE from == [j \in 1..(n - 1) |-> IF j < i THEN j ELSE j + 1]
<1>6. from \in [DOMAIN t -> DOMAIN s \ {i}]
  BY <1>3, <1>5
<1>7. \A j \in DOMAIN t : t[j] = s[from[j]]
  BY Zenon, <1>3, <1>5
<1>8. \A j, k \in DOMAIN t : j # k => from[j] # from[k]
  BY <1>3, <1>5
<1>9. \A k \in DOMAIN s \ {i} : \E j \in DOMAIN t : from[j] = k
  <2> SUFFICES ASSUME NEW k \in DOMAIN s \ {i} PROVE \E j \in DOMAIN t : from[j] = k
    BY Zenon
  <2>1. CASE k < i
    BY <1>3, <1>5, <2>1
  <2>2. CASE k > i
    <3>1. k - 1 \in DOMAIN t /\ from[k - 1] = k
      BY <1>3, <1>5, <2>2
    <3> QED
      BY Zenon, <3>1
  <2> QED
    BY <1>3, <2>1, <2>2
<1> HIDE DEF from
<1> QED
  BY Zenon, <1>5, <1>6, <1>7, <1>8, <1>9 DEF Without

----------------------------------------------------------------------------
(* At the start every frame is free. *)
LEMMA InitIInv == Init => IInv
<1> SUFFICES ASSUME Init PROVE IInv
  BY Zenon
<1> USE DEF Init
<1>1. Types
  BY EmptyMap DEF Types
<1>2. OwnedOnce
  BY EmptyMap DEF OwnedOnce, Owned, Apart
<1>3. LoadInv /\ FailedInv /\ Kept
  BY Zenon DEF LoadInv, FailedInv, Kept
<1> QED
  BY Zenon, <1>1, <1>2, <1>3 DEF IInv, Memory

(* A step that moves no frame. *)
LEMMA Quiet ==
  ASSUME Kept, OwnedOnce, UNCHANGED <<free, kernel, mappings, tasks, dropping>>,
         failed => failed'
  PROVE  Kept' /\ OwnedOnce'
<1>1. Kept'
  BY Zenon DEF Kept
<1>2. OwnedOnce'
  BY Zenon DEF OwnedOnce, Owned
<1> QED
  BY Zenon, <1>1, <1>2

(* allocate, palloc: a frame that is handed out was free. *)
LEMMA Picked ==
  ASSUME Types, free # {}
  PROVE  NewFrame \in free /\ NewFrame \in Frame
  BY Zenon, TaskAssumption DEF Types, NewFrame

(* The pages of an entry. *)
LEMMA Pgn ==
  ASSUME NEW s \in ProgramHeader
  PROVE  pgn(s) \in Nat
<1>1. s.vadr % PAGE_SIZE \in Nat
  BY TaskAssumption, Division DEF ProgramHeader
<1>2. (s.vadr % PAGE_SIZE) + s.mem_size + PAGE_SIZE - 1 \in Nat
  BY <1>1, TaskAssumption DEF ProgramHeader
<1> QED
  BY Zenon, <1>2, TaskAssumption, Division DEF pgn

(* allocate: the mapping that add_raw pushes. *)
LEMMA NextIsMapping ==
  ASSUME Types, LoadInv, at = "palloc", want > 0, NEW f \in Frame
  PROVE  NextMapping(f) \in Mapping /\ NextMapping(f).frame = f
<1> DEFINE s == Head(segments)
           k == Len(allocated)
<1>1. s \in ProgramHeader
  BY DEF Types, LoadInv
<1>2. s.vadr \in Nat /\ s.mem_size \in Nat
  BY Zenon, <1>1 DEF ProgramHeader
<1>3. k \in Nat /\ pgn(s) \in Nat
  BY <1>1, Pgn DEF Types
<1>4. k < pgn(s)
  BY <1>3 DEF Types, LoadInv
<1>5. s.vadr + s.mem_size < USERSPACE_TOP
  BY <1>2, TaskAssumption DEF LoadInv, InsecureLoad
<1> HIDE DEF s, k
<1>6. ((s.vadr \div PAGE_SIZE) + k) * PAGE_SIZE < s.vadr + s.mem_size
  BY Zenon, <1>2, <1>3, <1>4, TaskAssumption, PageBound DEF pgn
<1>7. s.vadr \div PAGE_SIZE \in Nat
  BY Zenon, <1>2, TaskAssumption, Division
<1>8. page_start(s) + k \in Nat /\ (page_start(s) + k) * PAGE_SIZE < USERSPACE_TOP
  <2> DEFINE q == s.vadr \div PAGE_SIZE
             x == (q + k) * PAGE_SIZE
             y == s.vadr + s.mem_size
  <2>1. q + k \in Nat
    BY <1>3, <1>7
  <2>2. x \in Nat
    BY <2>1, TaskAssumption
  <2>3. y \in Nat
    BY <1>2
  <2>4. x < y /\ y < USERSPACE_TOP
    BY Zenon, <1>5, <1>6
  <2> HIDE DEF x, y
  <2>5. x < USERSPACE_TOP
    BY <2>2, <2>3, <2>4, TaskAssumption
  <2> QED
    BY Zenon, <2>1, <2>5 DEF page_start, x
<1>9. page_start(s) + k \in Page
  <2> DEFINE p == page_start(s) + k
  <2>0. p \in Nat /\ 1 \in Nat /\ PAGE_SIZE \in Nat /\ 1 <= PAGE_SIZE
    BY <1>8, TaskAssumption
  <2>1. p * PAGE_SIZE \in Nat /\ p * 1 <= p * PAGE_SIZE
    <3> HIDE DEF p
    <3> QED
      BY Zenon, <2>0, Times
  <2>2. p <= USERSPACE_TOP
    BY <1>8, <2>0, <2>1, TaskAssumption
  <2> QED
    BY <1>8, <2>0, <2>2, TaskAssumption DEF Page
<1> QED
  BY Zenon, <1>9 DEF NextMapping, Mapping, s, k

(* Every step keeps what is known of the entry that is being loaded. *)
LEMMA NextLoad == IInv /\ [Next]_vars => LoadInv'
<1>s. SUFFICES ASSUME IInv, [Next]_vars PROVE LoadInv'
  BY Zenon
<1>0. LoadInv /\ Types
  BY Zenon, <1>s DEF IInv, Memory
<1>1. ASSUME NEW c \in Core, exec(c) PROVE LoadInv'
  <2>1. PICK elf \in Images : segments' = Append(elf.entries, Stack)
    BY Zenon, <1>1 DEF exec
  <2>2. elf.entries \in Seq(ProgramHeader)
    BY Zenon, TaskAssumption DEF ElfFile
  <2>3. segments'[Len(segments')] = Stack
    BY <2>1, <2>2
  <2>4. loader' # NONE /\ at' \in {"load", "drop"} /\ allocated' = <<>>
    BY Zenon, <1>0, <1>1, TaskAssumption DEF exec, LoadInv
  <2> QED
    BY Zenon, <2>3, <2>4 DEF LoadInv
<1>2. ASSUME Load PROVE LoadInv'
  <2> DEFINE s == Head(segments)
  <2>1. /\ segments # <<>> /\ segments \in Seq(ProgramHeader) /\ allocated = <<>>
        /\ segments[Len(segments)] = Stack /\ loader # NONE
        /\ UNCHANGED <<loader, allocated>>
    BY Zenon, <1>0, <1>2 DEF Load, Types, LoadInv
  <2>2. CASE ~s.load
    <3>1. segments' = Tail(segments) /\ at' = "load"
      BY Zenon, <1>2, <2>2 DEF Load
    <3>2. segments' # <<>> => segments'[Len(segments')] = Stack
      BY <2>1, <3>1
    <3> QED
      BY Zenon, <2>1, <3>1, <3>2 DEF LoadInv
  <2>3. CASE s.load /\ at' # "palloc"
    <3>1. segments' = segments /\ at' \in {"drop", "panic"}
      BY Zenon, <1>2, <2>3 DEF Load
    <3> QED
      BY Zenon, <2>1, <3>1 DEF LoadInv
  <2>4. CASE s.load /\ at' = "palloc"
    <3>1. segments' = segments /\ want' = pgn(s) /\ ~Refused(s)
      BY Zenon, <1>2, <2>4 DEF Load
    <3>2. ~InsecureLoad(s)
      <4>1. CASE Len(segments) > 1
        BY Zenon, <3>1, <4>1 DEF Refused
      <4>2. CASE ~(Len(segments) > 1)
        <5>1. s = Stack
          BY <2>1, <4>2
        <5> QED
          BY <5>1, TaskAssumption DEF Stack, InsecureLoad
      <4> QED
        BY Zenon, <4>1, <4>2
    <3>3. want' + Len(allocated') = pgn(s)
      <4>1. s \in ProgramHeader
        BY <2>1
      <4> QED
        BY <2>1, <3>1, <4>1, Pgn
    <3> QED
      BY Zenon, <2>1, <2>4, <3>1, <3>2, <3>3 DEF LoadInv
  <2> QED
    BY Zenon, <2>2, <2>3, <2>4
<1>3. ASSUME allocate PROVE LoadInv'
  <2>1. CASE free = {}
    BY Zenon, <1>0, <1>3, <2>1 DEF allocate, LoadInv
  <2>2. CASE free # {}
    <3>1. /\ allocated' = Append(allocated, NewFrame) /\ want' = want - 1
          /\ UNCHANGED <<loader, at, segments>> /\ at = "palloc"
      BY Zenon, <1>3, <2>2 DEF allocate
    <3>2. want' + Len(allocated') = want + Len(allocated)
      BY <1>0, <3>1 DEF Types
    <3> QED
      BY Zenon, <1>0, <3>1, <3>2 DEF LoadInv
  <2> QED
    BY Zenon, <2>1, <2>2
<1>4. ASSUME tmp_local_reserve PROVE LoadInv'
  <2>1. CASE at' = "panic"
    BY Zenon, <1>0, <1>4, <2>1 DEF tmp_local_reserve, LoadInv
  <2>2. CASE at' # "panic"
    <3>1. /\ at' = "load" /\ allocated' = <<>> /\ segments' = Tail(segments)
          /\ loader' = loader /\ loader # NONE /\ segments # <<>>
          /\ segments[Len(segments)] = Stack /\ segments \in Seq(ProgramHeader)
      BY Zenon, <1>0, <1>4, <2>2 DEF tmp_local_reserve, LoadInv, Types
    <3>2. segments' # <<>> => segments'[Len(segments')] = Stack
      BY <3>1
    <3> QED
      BY Zenon, <3>1, <3>2 DEF LoadInv
  <2> QED
    BY Zenon, <2>1, <2>2
<1>5. ASSUME pfree_all PROVE LoadInv'
  BY Zenon, <1>0, <1>5 DEF pfree_all, LoadInv
<1>6. ASSUME drop PROVE LoadInv'
  BY Zenon, <1>0, <1>6 DEF drop, LoadInv
<1>7. ASSUME new_locked PROVE LoadInv'
  BY Zenon, <1>0, <1>7 DEF new_locked, LoadInv
<1>8. ASSUME UNCHANGED <<loader, at, segments, want, allocated>> PROVE LoadInv'
  BY Zenon, <1>0, <1>8 DEF LoadInv
<1>9. ASSUME NEW c \in Core,
             exit_current(c) \/ DropTask(c) \/ release(c) \/ dispatch(c) \/ apply(c)
      PROVE  LoadInv'
  BY Zenon, <1>8, <1>9 DEF exit_current, DropTask, release, dispatch, apply, loadVars
<1>10. CASE palloc \/ UNCHANGED vars
  BY Zenon, <1>8, <1>10 DEF palloc, vars, loadVars
<1> QED
  BY Zenon, <1>s, <1>1, <1>2, <1>3, <1>4, <1>5, <1>6, <1>7, <1>9, <1>10 DEF Next

(* Every step keeps the frames. *)
LEMMA NextMemory == IInv /\ [Next]_vars => Memory'
<1>s. SUFFICES ASSUME IInv, [Next]_vars PROVE Memory'
  BY Zenon
<1>0. LoadInv /\ Types /\ FailedInv /\ Kept /\ OwnedOnce
  BY SMTT(20), <1>s DEF IInv, Memory
<1> USE DEF Memory
<1>1. ASSUME NEW c \in Core, exec(c) PROVE Memory'
  <2>1. PICK elf \in Images : segments' = Append(elf.entries, Stack)
    BY Zenon, <1>1 DEF exec
  <2>2. segments' \in Seq(ProgramHeader)
    <3>1. elf.entries \in Seq(ProgramHeader)
      BY Zenon, TaskAssumption DEF ElfFile
    <3>2. Stack \in ProgramHeader
      BY TaskAssumption DEF Stack, ProgramHeader
    <3> QED
      BY <2>1, <3>1, <3>2
  <2>3. Types' /\ FailedInv'
    BY Zenon, <1>0, <1>1, <2>2 DEF exec, Types, FailedInv, spaceVars
  <2> QED
    BY Zenon, <1>0, <1>1, <2>3, Quiet DEF exec
<1>2. ASSUME Load PROVE Memory'
  <2>1. segments' \in Seq(ProgramHeader)
    <3>1. Tail(segments) \in Seq(ProgramHeader)
      BY <1>0, <1>2 DEF Load, Types
    <3>2. segments' \in {segments, Tail(segments)}
      BY Zenon, <1>2 DEF Load
    <3> QED
      BY Zenon, <1>0, <3>1, <3>2 DEF Types
  <2>2. want' \in Nat
    <3>1. Head(segments) \in ProgramHeader
      BY <1>0, <1>2 DEF Load, Types
    <3> QED
      BY Zenon, <1>0, <1>2, <3>1, Pgn DEF Load, Types
  <2>3. Types' /\ FailedInv'
    BY Zenon, <1>0, <1>2, <2>1, <2>2 DEF Load, Types, FailedInv, spaceVars
  <2> QED
    BY Zenon, <1>0, <1>2, <2>3, Quiet DEF Load
<1>3. ASSUME allocate PROVE Memory'
  <2>1. CASE free = {}
    <3>1. Types' /\ FailedInv'
      BY Zenon, <1>0, <1>3, <2>1 DEF allocate, Types, FailedInv, spaceVars
    <3> QED
      BY Zenon, <1>0, <1>3, <2>1, <3>1, Quiet DEF allocate
  <2>2. CASE free # {}
    <3> DEFINE f == NewFrame
               m == NextMapping(f)
    <3>1. f \in free /\ f \in Frame
      BY Zenon, <1>0, <2>2, Picked
    <3>2. m \in Mapping /\ m.frame = f
      BY Zenon, <1>0, <1>3, <3>1, NextIsMapping DEF allocate
    <3>3. /\ free' = free \ {f} /\ mappings' = Append(mappings, m)
          /\ allocated' = Append(allocated, f) /\ want > 0 /\ want' = want - 1
          /\ UNCHANGED <<kernel, tasks, dropping, failed, at, segments, running>>
      BY Zenon, <1>3, <2>2 DEF allocate, spaceVars
    <3> HIDE DEF f, m
    <3>4. /\ mappings' \in Seq(Mapping)
          /\ FramesOf(mappings') = FramesOf(mappings) \cup {f}
          /\ Distinct(mappings) /\ f \notin FramesOf(mappings) => Distinct(mappings')
      BY Zenon, <1>0, <3>2, <3>3, AppendMap DEF Types
    <3>5. Types' /\ FailedInv'
      BY <1>0, <3>1, <3>3, <3>4 DEF Types, FailedInv
    <3>6. Kept'
      BY Zenon, <1>0, <3>3, <3>4 DEF Kept
    <3>7. ASSUME ~failed'
          PROVE  /\ (free \cap kernel = {})' /\ Owned(mappings)'
                 /\ \A i \in DOMAIN tasks :
                      Owned(tasks[i])' /\ Apart(tasks[i], mappings)'
                 /\ \A c \in Core :
                      Owned(dropping[c])' /\ Apart(dropping[c], mappings)'
      <4>1. ~failed
        BY Zenon, <3>3, <3>7
      <4>2. (free \cap kernel = {})' /\ Owned(mappings)'
        BY Zenon, <1>0, <3>1, <3>3, <3>4, <4>1 DEF OwnedOnce, Owned
      <4>3. ASSUME NEW i \in DOMAIN tasks
            PROVE  Owned(tasks[i])' /\ Apart(tasks[i], mappings)'
        <5>1. Owned(tasks[i]) /\ Apart(tasks[i], mappings)
          BY Zenon, <1>0, <4>1 DEF OwnedOnce
        <5> QED
          BY Zenon, <3>1, <3>3, <3>4, <5>1 DEF Owned, Apart
      <4>4. ASSUME NEW c \in Core
            PROVE  Owned(dropping[c])' /\ Apart(dropping[c], mappings)'
        <5>1. Owned(dropping[c]) /\ Apart(dropping[c], mappings)
          BY Zenon, <1>0, <4>1 DEF OwnedOnce
        <5> QED
          BY Zenon, <3>1, <3>3, <3>4, <5>1 DEF Owned, Apart
      <4> QED
        BY Zenon, <4>2, <4>3, <4>4
    <3>8. OwnedOnce'
      BY Zenon, <1>0, <3>3, <3>7 DEF OwnedOnce
    <3> QED
      BY Zenon, <3>5, <3>6, <3>8
  <2> QED
    BY Zenon, <2>1, <2>2
<1>4. ASSUME tmp_local_reserve PROVE Memory'
  <2>1. segments' \in Seq(ProgramHeader) /\ allocated' \in Seq(Frame)
    <3>1. Tail(segments) \in Seq(ProgramHeader) /\ <<>> \in Seq(Frame)
      BY <1>0, <1>4 DEF tmp_local_reserve, Types, LoadInv
    <3>2. segments' \in {segments, Tail(segments)} /\ allocated' \in {allocated, <<>>}
      BY Zenon, <1>4 DEF tmp_local_reserve
    <3> QED
      BY Zenon, <1>0, <3>1, <3>2 DEF Types
  <2>2. Types' /\ FailedInv'
    BY Zenon, <1>0, <1>4, <2>1 DEF tmp_local_reserve, Types, FailedInv, spaceVars
  <2> QED
    BY Zenon, <1>0, <1>4, <2>2, Quiet DEF tmp_local_reserve
<1>5. ASSUME pfree_all PROVE Memory'
  <2>1. CASE allocated = <<>>
    <3>1. Types' /\ FailedInv'
      BY Zenon, <1>0, <1>5, <2>1 DEF pfree_all, Types, FailedInv, spaceVars
    <3> QED
      BY Zenon, <1>0, <1>5, <2>1, <3>1, Quiet DEF pfree_all
  <2>2. CASE allocated # <<>>
    <3>1. Head(allocated) \in Frame /\ Tail(allocated) \in Seq(Frame)
      BY <1>0, <2>2 DEF Types
    <3>2. Types' /\ FailedInv'
      BY Zenon, <1>0, <1>5, <2>2, <3>1 DEF pfree_all, Types, FailedInv, spaceVars
    <3>3. Kept'
      BY Zenon, <1>0, <1>5, <2>2 DEF pfree_all, Kept
    <3>4. OwnedOnce'
      BY Zenon, <1>0, <1>5 DEF pfree_all, FailedInv, OwnedOnce
    <3> QED
      BY Zenon, <3>2, <3>3, <3>4
  <2> QED
    BY Zenon, <2>1, <2>2
<1>6. ASSUME drop PROVE Memory'
  <2>1. CASE mappings = <<>>
    <3>1. /\ segments' = <<>> /\ want' = 0 /\ at' # "palloc" /\ at' # "pfree_all"
          /\ UNCHANGED <<free, kernel, mappings, tasks, dropping, failed, allocated,
                         running>>
      BY Zenon, <1>6, <2>1 DEF drop, spaceVars
    <3>2. Types' /\ FailedInv'
      BY <1>0, <3>1 DEF Types, FailedInv
    <3> QED
      BY Zenon, <1>0, <3>1, <3>2, Quiet
  <2>2. CASE mappings # <<>>
    <3> DEFINE f == Head(mappings).frame
    <3>1. /\ free' = free \cup {f} /\ mappings' = Tail(mappings)
          /\ UNCHANGED <<kernel, tasks, dropping, failed, at, segments, want, allocated,
                         running>>
      BY Zenon, <1>6, <2>2 DEF drop, spaceVars
    <3>2. /\ mappings' \in Seq(Mapping) /\ f \in Frame
          /\ FramesOf(mappings) = FramesOf(mappings') \cup {f}
          /\ Distinct(mappings) =>
               Distinct(mappings') /\ f \notin FramesOf(mappings')
      BY Zenon, <1>0, <2>2, <3>1, TailMap DEF Types, Mapping
    <3> HIDE DEF f
    <3>3. Types' /\ FailedInv'
      BY Zenon, <1>0, <3>1, <3>2 DEF Types, FailedInv
    <3>4. Kept'
      BY SMTT(20), <1>0, <3>1, <3>2 DEF Kept
    <3>5. OwnedOnce'
      BY Zenon, <1>0, <3>1, <3>2 DEF OwnedOnce, Owned, Apart
    <3> QED
      BY Zenon, <3>3, <3>4, <3>5
  <2> QED
    BY Zenon, <2>1, <2>2
<1>7. ASSUME new_locked PROVE Memory'
  <2> DEFINE n == Len(tasks) + 1
  <2>1. /\ tasks' = Append(tasks, mappings) /\ mappings' = <<>> /\ at' = "idle"
        /\ UNCHANGED <<free, kernel, dropping, failed, segments, want, allocated, running>>
    BY Zenon, <1>7 DEF new_locked, spaceVars
  <2>2. /\ tasks' \in Seq(Seq(Mapping))
        /\ DOMAIN tasks' = DOMAIN tasks \cup {n} /\ n \notin DOMAIN tasks
        /\ tasks'[n] = mappings
        /\ \A i \in DOMAIN tasks : tasks'[i] = tasks[i]
    BY <1>0, <2>1 DEF Types
  <2> HIDE DEF n
  <2>3. Types' /\ FailedInv'
    BY Zenon, <1>0, <2>1, <2>2, EmptyMap DEF Types, FailedInv
  <2>4. Kept'
    BY Zenon, <1>0, <2>1, <2>2 DEF Kept
  <2>5. ASSUME ~failed
        PROVE  /\ Owned(mappings)'
               /\ \A i \in DOMAIN tasks' :
                    /\ Owned(tasks'[i]) /\ Apart(tasks'[i], mappings')
                    /\ \A j \in DOMAIN tasks' : i # j => Apart(tasks'[i], tasks'[j])
                    /\ \A c \in Core : Apart(tasks'[i], dropping'[c])
               /\ \A c \in Core : Apart(dropping[c], mappings')
    <3>1. Owned(mappings)' /\ \A map : Apart(map, mappings')
      BY SMTT(20), <2>1, EmptyMap DEF Owned, Apart
    <3>2. \A i \in DOMAIN tasks : Owned(tasks'[i])
      BY Zenon, <1>0, <2>1, <2>2, <2>5 DEF OwnedOnce, Owned
    <3>3. Owned(tasks'[n])
      BY Zenon, <1>0, <2>1, <2>2, <2>5 DEF OwnedOnce, Owned
    <3>4. \A i, j \in DOMAIN tasks' : i # j => Apart(tasks'[i], tasks'[j])
      BY <1>0, <2>2, <2>5 DEF OwnedOnce, Apart
    <3>5. \A i \in DOMAIN tasks' : \A c \in Core : Apart(tasks'[i], dropping'[c])
      BY SMTT(20), <1>0, <2>1, <2>2, <2>5 DEF OwnedOnce, Apart
    <3> QED
      BY Zenon, <2>2, <3>1, <3>2, <3>3, <3>4, <3>5
  <2>6. OwnedOnce'
    BY Zenon, <1>0, <2>1, <2>5 DEF OwnedOnce, Owned
  <2> QED
    BY Zenon, <2>3, <2>4, <2>6
<1>8. ASSUME NEW c \in Core, exit_current(c) PROVE Memory'
  <2>1. PICK i \in DOMAIN tasks :
          tasks[i] = running[c] /\ tasks' = RemoveAt(tasks, i)
    BY Zenon, <1>8 DEF exit_current
  <2>2. /\ dropping[c] = <<>> /\ dropping' = [dropping EXCEPT ![c] = tasks[i]]
        /\ running' = [running EXCEPT ![c] = <<>>]
        /\ UNCHANGED <<free, kernel, mappings, failed, at, segments, want, allocated>>
    BY Zenon, <1>8, <2>1 DEF exit_current, AtCall, loadVars
  <2>3. tasks' \in Seq(Seq(Mapping)) /\ Without(tasks, i, tasks')
    <3>1. tasks \in Seq(Seq(Mapping))
      BY Zenon, <1>0 DEF Types
    <3> QED
      BY Zenon, <2>1, <3>1, RemoveTask
  <2>4. PICK g \in [DOMAIN tasks' -> DOMAIN tasks \ {i}] :
          /\ \A j \in DOMAIN tasks' : tasks'[j] = tasks[g[j]]
          /\ \A j, k \in DOMAIN tasks' : j # k => g[j] # g[k]
          /\ \A k \in DOMAIN tasks \ {i} : \E j \in DOMAIN tasks' : g[j] = k
    BY Zenon, <2>3 DEF Without
  <2>5. \A d \in Core : dropping'[d] = IF d = c THEN tasks[i] ELSE dropping[d]
    BY Zenon, <1>0, <2>2 DEF Types
  <2>6. Types' /\ FailedInv'
    BY Zenon, <1>0, <2>1, <2>2, <2>3, EmptyMap DEF Types, FailedInv
  <2>7. Kept'
    BY <1>0, <2>2, <2>4, <2>5, EmptyMap DEF Kept
  <2>8. ASSUME ~failed
        PROVE  /\ \A j \in DOMAIN tasks' :
                    /\ Owned(tasks'[j]) /\ Apart(tasks'[j], mappings)
                    /\ \A k \in DOMAIN tasks' : j # k => Apart(tasks'[j], tasks'[k])
                    /\ \A d \in Core : Apart(tasks'[j], dropping'[d])
               /\ \A d \in Core :
                    /\ Owned(dropping'[d]) /\ Apart(dropping'[d], mappings)
                    /\ \A e \in Core : d # e => Apart(dropping'[d], dropping'[e])
    <3>1. \A map, other : Apart(map, other) <=> Apart(other, map)
      BY Zenon DEF Apart
    <3>2. \A j \in DOMAIN tasks' :
            /\ Owned(tasks'[j]) /\ Apart(tasks'[j], mappings)
            /\ \A k \in DOMAIN tasks' : j # k => Apart(tasks'[j], tasks'[k])
      BY SMTT(20), <1>0, <2>4, <2>8 DEF OwnedOnce
    <3>3. \A j \in DOMAIN tasks' : \A d \in Core : Apart(tasks'[j], dropping'[d])
      BY <1>0, <2>1, <2>4, <2>5, <2>8 DEF OwnedOnce
    <3>4. \A d \in Core : Owned(dropping'[d]) /\ Apart(dropping'[d], mappings)
      BY Zenon, <1>0, <2>1, <2>5, <2>8 DEF OwnedOnce
    <3>5. \A d, e \in Core : d # e => Apart(dropping'[d], dropping'[e])
      BY SMTT(20), <1>0, <2>1, <2>5, <2>8, <3>1 DEF OwnedOnce
    <3> QED
      BY Zenon, <3>2, <3>3, <3>4, <3>5
  <2>9. OwnedOnce'
    BY Zenon, <1>0, <2>2, <2>8 DEF OwnedOnce, Owned
  <2> QED
    BY Zenon, <2>6, <2>7, <2>9
<1>9. ASSUME NEW c \in Core, DropTask(c) PROVE Memory'
  <2> DEFINE f == Head(dropping[c]).frame
             rest == Tail(dropping[c])
  <2>1. /\ free' = free \cup {f} /\ dropping' = [dropping EXCEPT ![c] = rest]
        /\ dropping[c] # <<>>
        /\ UNCHANGED <<kernel, tasks, mappings, failed, at, segments, want, allocated,
                       running>>
    BY Zenon, <1>9 DEF DropTask, loadVars, spaceVars
  <2>2. /\ rest \in Seq(Mapping) /\ f \in Frame
        /\ FramesOf(dropping[c]) = FramesOf(rest) \cup {f}
        /\ Distinct(dropping[c]) => Distinct(rest) /\ f \notin FramesOf(rest)
    BY Zenon, <1>0, <2>1, TailMap DEF Types, Mapping
  <2> HIDE DEF f, rest
  <2>3. \A d \in Core : dropping'[d] = IF d = c THEN rest ELSE dropping[d]
    BY Zenon, <1>0, <2>1 DEF Types
  <2>4. Types' /\ FailedInv'
    BY Zenon, <1>0, <2>1, <2>2 DEF Types, FailedInv
  <2>5. Kept'
    BY Zenon, <1>0, <2>1, <2>2, <2>3 DEF Kept
  <2>6. ASSUME ~failed
        PROVE  /\ (free \cap kernel = {})' /\ Owned(mappings)'
               /\ \A i \in DOMAIN tasks :
                    /\ Owned(tasks[i])'
                    /\ \A d \in Core : Apart(tasks[i], dropping'[d])
               /\ \A d \in Core :
                    /\ Owned(dropping[d])' /\ Apart(dropping'[d], mappings)
                    /\ \A e \in Core : d # e => Apart(dropping'[d], dropping'[e])
    <3>0. Owned(dropping[c]) /\ Apart(dropping[c], mappings)
      BY Zenon, <1>0, <2>6 DEF OwnedOnce
    <3>1. /\ Owned(dropping[c]) /\ Apart(dropping[c], mappings)
          /\ f \notin kernel /\ f \notin FramesOf(mappings)
      BY Zenon, <2>2, <3>0 DEF Owned, Apart
    <3>2. (free \cap kernel = {})' /\ Owned(mappings)'
      <4>1. free \cap kernel = {} /\ Owned(mappings)
        BY Zenon, <1>0, <2>6 DEF OwnedOnce
      <4>2. (free \cap kernel = {})'
        BY Zenon, <2>1, <3>1, <4>1
      <4> QED
        BY Zenon, <2>1, <3>1, <4>1, <4>2 DEF Owned
    <3>3. \A i \in DOMAIN tasks : Apart(tasks[i], dropping[c])
      BY SMTT(20), <1>0, <2>6 DEF OwnedOnce
    <3>4. ASSUME NEW i \in DOMAIN tasks PROVE Owned(tasks[i])'
      <4>1. Owned(tasks[i])
        BY Zenon, <1>0, <2>6 DEF OwnedOnce
      <4>2. f \notin FramesOf(tasks[i])
        BY Zenon, <2>2, <3>3 DEF Apart
      <4> QED
        BY Zenon, <2>1, <4>1, <4>2 DEF Owned
    <3>5. \A i \in DOMAIN tasks : \A d \in Core : Apart(tasks[i], dropping'[d])
      BY SMTT(20), <1>0, <2>2, <2>3, <2>6, <3>3 DEF OwnedOnce, Apart
    <3>6. \A d \in Core : c # d => Apart(dropping[c], dropping[d])
      BY Zenon, <1>0, <2>6 DEF OwnedOnce
    <3>7. \A d \in Core : Owned(dropping[d])' /\ Apart(dropping'[d], mappings)
      <4> SUFFICES ASSUME NEW d \in Core
                   PROVE  Owned(dropping[d])' /\ Apart(dropping'[d], mappings)
        BY SMTT(20)
      <4>1. Owned(dropping[d]) /\ Apart(dropping[d], mappings)
        BY Zenon, <1>0, <2>6 DEF OwnedOnce
      <4> QED
        BY Zenon, <2>1, <2>2, <2>3, <3>1, <3>6, <4>1 DEF Owned, Apart
    <3>8. \A d, e \in Core : d # e => Apart(dropping'[d], dropping'[e])
      <4> SUFFICES ASSUME NEW d \in Core, NEW e \in Core, d # e
                   PROVE  Apart(dropping'[d], dropping'[e])
        BY Zenon
      <4>1. Apart(dropping[d], dropping[e])
        BY SMTT(20), <1>0, <2>6 DEF OwnedOnce
      <4> QED
        BY Zenon, <2>2, <2>3, <4>1 DEF Apart
    <3> QED
      BY SMTT(20), <3>2, <3>4, <3>5, <3>7, <3>8
  <2>7. OwnedOnce'
    BY Zenon, <1>0, <2>1, <2>6 DEF OwnedOnce
  <2> QED
    BY Zenon, <2>4, <2>5, <2>7
<1>10. ASSUME NEW c \in Core, release(c) \/ dispatch(c) \/ apply(c) PROVE Memory'
  <2>1. /\ running' \in [Core -> Seq(Mapping)]
        /\ UNCHANGED <<free, kernel, mappings, tasks, dropping, failed, at, segments,
                       want, allocated>>
    <3>1. /\ running \in [Core -> Seq(Mapping)]
          /\ \A i \in DOMAIN tasks : tasks[i] \in Seq(Mapping)
      BY <1>0 DEF Types
    <3>2. CASE release(c)
      BY Zenon, <3>1, <3>2, EmptyMap DEF release, loadVars
    <3>3. CASE dispatch(c)
      BY Zenon, <3>1, <3>3 DEF dispatch, loadVars
    <3>4. CASE apply(c)
      BY Zenon, <3>1, <3>4 DEF apply, loadVars
    <3> QED
      BY Zenon, <1>10, <3>2, <3>3, <3>4
  <2>2. Types' /\ FailedInv'
    BY Zenon, <1>0, <2>1 DEF Types, FailedInv
  <2> QED
    BY Zenon, <1>0, <2>1, <2>2, Quiet
<1>11. ASSUME palloc PROVE Memory'
  <2> DEFINE f == NewFrame
  <2>1. f \in free /\ f \in Frame
    BY Zenon, <1>0, <1>11, Picked DEF palloc
  <2>2. /\ free' = free \ {f} /\ kernel' = kernel \cup {f}
        /\ UNCHANGED <<tasks, mappings, dropping, failed, at, segments, want, allocated,
                       running>>
    BY Zenon, <1>11 DEF palloc, loadVars, spaceVars
  <2> HIDE DEF f
  <2>3. Types' /\ FailedInv'
    BY Zenon, <1>0, <2>1, <2>2 DEF Types, FailedInv
  <2>4. Kept'
    BY SMTT(20), <1>0, <2>2 DEF Kept
  <2>5. OwnedOnce'
    <3> SUFFICES ASSUME ~failed
                 PROVE  /\ (free \cap kernel = {})' /\ Owned(mappings)'
                        /\ \A i \in DOMAIN tasks : Owned(tasks[i])'
                        /\ \A c \in Core : Owned(dropping[c])'
      BY Zenon, <1>0, <2>2 DEF OwnedOnce
    <3>1. /\ free \cap kernel = {} /\ Owned(mappings)
          /\ \A i \in DOMAIN tasks : Owned(tasks[i])
          /\ \A c \in Core : Owned(dropping[c])
      BY Zenon, <1>0 DEF OwnedOnce
    <3>2. \A map : Owned(map) => /\ Distinct(map) /\ FramesOf(map) \cap free' = {}
                                /\ FramesOf(map) \cap kernel' = {}
      BY Zenon, <2>1, <2>2 DEF Owned
    <3> QED
      BY Zenon, <2>1, <2>2, <3>1, <3>2 DEF Owned
  <2> QED
    BY Zenon, <2>3, <2>4, <2>5
<1>12. CASE UNCHANGED vars
  <2>1. Types' /\ FailedInv'
    BY Zenon, <1>0, <1>12 DEF vars, loadVars, spaceVars, Types, FailedInv
  <2> QED
    BY Zenon, <1>0, <1>12, <2>1, Quiet DEF vars, loadVars
<1> QED
  BY Zenon, <1>s, <1>1, <1>2, <1>3, <1>4, <1>5, <1>6, <1>7, <1>8, <1>9, <1>10, <1>11, <1>12
     DEF Next

(* The invariant holds in every state. *)
THEOREM Invariance == Spec => []IInv
<1>1. IInv /\ [Next]_vars => IInv'
  BY Zenon, NextLoad, NextMemory DEF IInv
<1> QED
  BY InitIInv, <1>1, PTL DEF Spec

(* For any number of cores, tasks and images: no frame has two owners before an
   allocation has failed. *)
THEOREM SingleOwner == Spec => []OwnedOnce
  BY Invariance, PTL DEF IInv, Memory

(* For any number of cores, tasks and images, and also after failed
   allocations: every frame is free or has an owner that will free it. *)
THEOREM FramesKept == Spec => []NoFrameLost
<1>1. IInv => NoFrameLost
  <2> SUFFICES ASSUME IInv PROVE NoFrameLost
    BY Zenon
  <2>1. Types /\ Kept
    BY Zenon DEF IInv, Memory
  <2>2. Frame \subseteq free \cup UNION Owners
    BY Zenon, <2>1 DEF Kept, Owners
  <2>3. \A i \in DOMAIN tasks : FramesOf(tasks[i]) \subseteq Frame
    BY <2>1, MapFrames DEF Types
  <2>4. \A c \in Core : FramesOf(dropping[c]) \subseteq Frame
    BY Zenon, <2>1, MapFrames DEF Types
  <2>5. FramesOf(mappings) \subseteq Frame
    BY Zenon, <2>1, MapFrames DEF Types
  <2>6. \A set \in Owners : set \subseteq Frame
    BY Zenon, <2>1, <2>3, <2>4, <2>5 DEF Owners, Types
  <2> QED
    BY Zenon, <2>1, <2>2, <2>6 DEF NoFrameLost, Types
<1> QED
  BY Invariance, <1>1, PTL

(* For any image and any page size: every page that is mapped for a task begins
   in user space. *)
THEOREM PagesInUserSpace == Spec => []InUserSpace
<1>1. IInv => InUserSpace
  <2> SUFFICES ASSUME IInv,
                      NEW map \in {mappings} \cup Range(tasks) \cup Range(running),
                      NEW i \in DOMAIN map
               PROVE  map[i].page * PAGE_SIZE < USERSPACE_TOP
    BY Zenon DEF InUserSpace
  <2>1. Types
    BY Zenon DEF IInv, Memory
  <2>2. map \in Seq(Mapping)
    BY <2>1 DEF Types, Range
  <2>3. map[i] \in Mapping
    BY <2>2
  <2> QED
    BY Zenon, <2>3 DEF Mapping, Page
<1> QED
  BY Invariance, <1>1, PTL

----------------------------------------------------------------------------
(* The rest of the state has its type. *)
SpaceTypes ==
  /\ loader \in Core \cup {NONE} /\ (at = "idle" <=> loader = NONE)
  /\ at \in {"idle", "load", "palloc", "pfree_all", "drop", "panic"}
  /\ size \in Nat /\ failed \in BOOLEAN
  /\ applying \in [Core -> Seq(Mapping)]
  /\ active_mapping \in [Core -> BOOLEAN]
  /\ page_table \in [Page -> Frame \cup {NONE}]

(* No page is mapped twice in a map. *)
OnePage(map) == \A i, j \in DOMAIN map : i # j => map[i].page # map[j].page

(* A map has no page of the entries that are still to be loaded. *)
Clear(map, entries) ==
  \A i \in DOMAIN map, j \in DOMAIN entries :
    Loadable(entries[j]) => map[i].page \notin PagesOf(entries[j])

(* Task::exec: the map has no page twice, because the pages it has of the entry
   that is being loaded come before the next one, and no two entries share a
   page. *)
LoadPages ==
  /\ at = "idle" => mappings = <<>>
  /\ SharesNoPage(segments)
  /\ OnePage(mappings)
  /\ at = "load" => Clear(mappings, segments)
  /\ at = "palloc" =>
       /\ Head(segments).load
       /\ Clear(mappings, Tail(segments))
       /\ \A i \in DOMAIN mappings :
            mappings[i].page \in PagesOf(Head(segments))
              => mappings[i].page < page_start(Head(segments)) + Len(allocated)
  /\ \A i \in DOMAIN tasks : OnePage(tasks[i])

(* A core that runs the first task, is applying its map or has applied it: what
   is not in the page table is still to be applied. *)
Uses(c) == active_mapping[c] \/ applying[c] # <<>> \/ running[c] # <<>>
FirstInv ==
  first # NONE =>
    /\ OnePage(first)
    /\ \A c \in Core :
         /\ Uses(c) => first # <<>>
         /\ running[c] \in {<<>>, first}
         /\ Range(applying[c]) \subseteq Range(first)
         /\ Uses(c) => \A m \in Range(first) :
                         m \in Range(applying[c]) \/ page_table[m.page] = m.frame

(* The entries that are loadable are those that Task::exec finds secure. *)
LEMMA LoadableIs ==
  ASSUME NEW s \in ProgramHeader
  PROVE  Loadable(s) <=> s.load /\ ~InsecureLoad(s)
  BY TaskAssumption DEF ProgramHeader, Loadable, InsecureLoad

(* The entries of a sequence after its first. *)
LEMMA Rest ==
  ASSUME NEW S, NEW s \in Seq(S), s # <<>>
  PROVE  /\ Tail(s) \in Seq(S) /\ Head(s) = s[1] /\ 1 \in DOMAIN s /\ s[1] \in S
         /\ \A j \in DOMAIN Tail(s) :
              j + 1 \in DOMAIN s /\ j + 1 # 1 /\ Tail(s)[j] = s[j + 1]
         /\ \A i, j \in DOMAIN Tail(s) : i # j => i + 1 # j + 1
         /\ Range(s) = {Head(s)} \cup Range(Tail(s))
<1> DEFINE t == Tail(s) n == Len(s)
<1>1. /\ t \in Seq(S) /\ Head(s) = s[1] /\ s[1] \in S
      /\ n \in Nat \ {0} /\ DOMAIN s = 1..n /\ DOMAIN t = 1..(n - 1)
      /\ \A j \in 1..(n - 1) : t[j] = s[j + 1]
  OBVIOUS
<1> HIDE DEF t, n
<1>2. /\ 1 \in DOMAIN s
      /\ \A j \in DOMAIN t : j + 1 \in DOMAIN s /\ j + 1 # 1 /\ t[j] = s[j + 1]
      /\ \A i, j \in DOMAIN t : i # j => i + 1 # j + 1
  BY <1>1
<1>3. \A k \in DOMAIN s : k = 1 \/ (k - 1 \in DOMAIN t /\ (k - 1) + 1 = k)
  BY <1>1
<1>4. Range(s) \subseteq {s[1]} \cup Range(t)
  <2> SUFFICES ASSUME NEW k \in DOMAIN s PROVE s[k] \in {s[1]} \cup Range(t)
    BY Zenon DEF Range
  <2>1. CASE k = 1
    BY Zenon, <2>1
  <2>2. CASE k - 1 \in DOMAIN t /\ (k - 1) + 1 = k
    <3>1. t[k - 1] = s[(k - 1) + 1]
      BY Zenon, <1>2, <2>2
    <3>2. s[k] = t[k - 1]
      BY Zenon, <2>2, <3>1
    <3> QED
      BY Zenon, <2>2, <3>2 DEF Range
  <2> QED
    BY Zenon, <1>3, <2>1, <2>2
<1>5. {s[1]} \cup Range(t) \subseteq Range(s)
  BY Zenon, <1>2 DEF Range
<1> QED
  BY Zenon, <1>1, <1>2, <1>4, <1>5 DEF t

(* At the start nothing is loaded and no core has a map. *)
LEMMA InitSpace == Init => SpaceTypes /\ LoadPages /\ FirstInv
<1> SUFFICES ASSUME Init PROVE SpaceTypes /\ LoadPages /\ FirstInv
  BY Zenon
<1>1. SpaceTypes
  BY Zenon, EmptyMap, TaskAssumption DEF Init, SpaceTypes
<1>2. LoadPages
  BY DEF Init, LoadPages, OnePage, SharesNoPage
<1>3. FirstInv
  BY DEF Init, FirstInv, OnePage, Uses, Range
<1> QED
  BY Zenon, <1>1, <1>2, <1>3

(* Every step keeps the types. *)
LEMMA NextTypes == IInv /\ SpaceTypes /\ [Next]_vars => SpaceTypes'
<1>s. SUFFICES ASSUME IInv, SpaceTypes, [Next]_vars PROVE SpaceTypes'
  BY Zenon
<1>0. Types /\ SpaceTypes
  BY Zenon, <1>s DEF IInv, Memory
<1>1. ASSUME NEW c \in Core, exec(c) PROVE SpaceTypes'
  <2>1. \A elf \in Images : elf.size \in Nat
    BY Zenon, TaskAssumption DEF ElfFile
  <2>2. c # NONE
    BY Zenon, TaskAssumption
  <2> QED
    BY Zenon, <1>0, <1>1, <2>1, <2>2 DEF exec, spaceVars, SpaceTypes
<1>2. ASSUME Load PROVE SpaceTypes'
  BY Zenon, <1>0, <1>2 DEF Load, spaceVars, SpaceTypes
<1>3. ASSUME allocate PROVE SpaceTypes'
  BY Zenon, <1>0, <1>3 DEF allocate, spaceVars, SpaceTypes
<1>4. ASSUME tmp_local_reserve PROVE SpaceTypes'
  BY Zenon, <1>0, <1>4 DEF tmp_local_reserve, spaceVars, SpaceTypes
<1>5. ASSUME pfree_all PROVE SpaceTypes'
  BY Zenon, <1>0, <1>5 DEF pfree_all, spaceVars, SpaceTypes
<1>6. ASSUME drop PROVE SpaceTypes'
  BY <1>0, <1>6 DEF drop, spaceVars, SpaceTypes
<1>7. ASSUME new_locked PROVE SpaceTypes'
  BY Zenon, <1>0, <1>7 DEF new_locked, spaceVars, SpaceTypes
<1>8. ASSUME NEW c \in Core, exit_current(c) \/ DropTask(c) \/ release(c) PROVE SpaceTypes'
  BY Zenon, <1>0, <1>8 DEF exit_current, DropTask, release, loadVars, spaceVars, SpaceTypes
<1>9. ASSUME NEW c \in Core, dispatch(c) PROVE SpaceTypes'
  <2>1. \A i \in DOMAIN tasks : ToApply(c, tasks[i]) \in Seq(Mapping)
    BY <1>0, EmptyMap DEF Types, ToApply
  <2>2. applying' \in [Core -> Seq(Mapping)]
    BY Zenon, <1>0, <1>9, <2>1 DEF dispatch, SpaceTypes
  <2> QED
    BY Zenon, <1>0, <1>9, <2>2 DEF dispatch, loadVars, SpaceTypes
<1>10. ASSUME NEW c \in Core, apply(c) PROVE SpaceTypes'
  <2>1. applying[c] \in Seq(Mapping) /\ applying[c] # <<>>
    BY Zenon, <1>0, <1>10 DEF apply, SpaceTypes
  <2>2. Tail(applying[c]) \in Seq(Mapping) /\ Head(applying[c]) \in Mapping
    BY <2>1
  <2>3. applying' \in [Core -> Seq(Mapping)]
    BY Zenon, <1>0, <1>10, <2>2 DEF apply, SpaceTypes
  <2>4. active_mapping' \in [Core -> BOOLEAN]
    BY Zenon, <1>0, <1>10 DEF apply, SpaceTypes
  <2>5. page_table' \in [Page -> Frame \cup {NONE}]
    BY Zenon, <1>0, <1>10, <2>2 DEF apply, SpaceTypes, Mapping
  <2> QED
    BY Zenon, <1>0, <1>10, <2>3, <2>4, <2>5 DEF apply, loadVars, SpaceTypes
<1>11. ASSUME palloc PROVE SpaceTypes'
  BY Zenon, <1>0, <1>11 DEF palloc, loadVars, spaceVars, SpaceTypes
<1>12. CASE UNCHANGED vars
  BY Zenon, <1>0, <1>12 DEF vars, loadVars, spaceVars, SpaceTypes
<1> QED
  BY Zenon, <1>s, <1>1, <1>2, <1>3, <1>4, <1>5, <1>6, <1>7, <1>8, <1>9, <1>10, <1>11, <1>12
     DEF Next

(* The entries that are left once one is loaded share no page, and a map that
   has no page of the entries has none of those that are left. *)
LEMMA EntriesLeft ==
  ASSUME NEW entries \in Seq(ProgramHeader), entries # <<>>, NEW map
  PROVE  /\ SharesNoPage(entries) => SharesNoPage(Tail(entries))
         /\ Clear(map, entries) => Clear(map, Tail(entries))
<1>1. /\ \A j \in DOMAIN Tail(entries) :
           j + 1 \in DOMAIN entries /\ Tail(entries)[j] = entries[j + 1]
      /\ \A i, j \in DOMAIN Tail(entries) : i # j => i + 1 # j + 1
  BY Zenon, Rest
<1>2. ASSUME SharesNoPage(entries) PROVE SharesNoPage(Tail(entries))
  <2> SUFFICES ASSUME NEW i \in DOMAIN Tail(entries), NEW j \in DOMAIN Tail(entries), i # j,
                      Loadable(Tail(entries)[i]), Loadable(Tail(entries)[j])
               PROVE  PagesOf(Tail(entries)[i]) \cap PagesOf(Tail(entries)[j]) = {}
    BY Zenon DEF SharesNoPage
  <2> QED
    BY Zenon, <1>1, <1>2 DEF SharesNoPage
<1>3. ASSUME Clear(map, entries) PROVE Clear(map, Tail(entries))
  BY Zenon, <1>1, <1>3 DEF Clear
<1> QED
  BY Zenon, <1>2, <1>3

(* Drop for MemoryMapping: what is left of a map has no page twice. *)
LEMMA TailPages ==
  ASSUME NEW map \in Seq(Mapping), map # <<>>, OnePage(map)
  PROVE  OnePage(Tail(map))
<1>1. /\ \A j \in DOMAIN Tail(map) : j + 1 \in DOMAIN map /\ Tail(map)[j] = map[j + 1]
      /\ \A i, j \in DOMAIN Tail(map) : i # j => i + 1 # j + 1
  BY Zenon, Rest
<1> SUFFICES ASSUME NEW i \in DOMAIN Tail(map), NEW j \in DOMAIN Tail(map), i # j
             PROVE  Tail(map)[i].page # Tail(map)[j].page
  BY Zenon DEF OnePage
<1> QED
  BY Zenon, <1>1 DEF OnePage

(* MemoryMap::allocate: the next page of the entry is in no mapping yet, and in
   no entry that is still to be loaded. *)
LEMMA NextPage ==
  ASSUME IInv, LoadPages, at = "palloc", want > 0, NEW f \in Frame
  PROVE  /\ OnePage(Append(mappings, NextMapping(f)))
         /\ Clear(Append(mappings, NextMapping(f)), Tail(segments))
         /\ \A i \in DOMAIN Append(mappings, NextMapping(f)) :
              Append(mappings, NextMapping(f))[i].page \in PagesOf(Head(segments))
                => Append(mappings, NextMapping(f))[i].page
                     < page_start(Head(segments)) + Len(allocated) + 1
<1> DEFINE s == Head(segments)
           q == page_start(s)
           k == Len(allocated)
           m == NextMapping(f)
           longer == Append(mappings, m)
<1>0. Types /\ LoadInv
  BY Zenon DEF IInv, Memory
<1>1. segments \in Seq(ProgramHeader) /\ segments # <<>>
  BY Zenon, <1>0 DEF Types, LoadInv
<1>2. s \in ProgramHeader /\ s = segments[1] /\ 1 \in DOMAIN segments
  BY Zenon, <1>1, Rest
<1>3. q \in Nat
  <2>1. s.vadr \in Nat
    BY Zenon, <1>2 DEF ProgramHeader
  <2> QED
    BY Zenon, <2>1, TaskAssumption, Division DEF page_start
<1>4. k \in Nat /\ pgn(s) \in Nat /\ k < pgn(s)
  BY <1>0, <1>2, Pgn DEF Types, LoadInv
<1>5. m \in Mapping /\ m.page = q + k
  BY Zenon, <1>0, NextIsMapping DEF NextMapping
<1>6. Loadable(s)
  BY Zenon, <1>0, <1>2, LoadableIs DEF LoadPages, LoadInv
<1>7. /\ OnePage(mappings) /\ Clear(mappings, Tail(segments)) /\ SharesNoPage(segments)
      /\ \A i \in DOMAIN mappings :
           mappings[i].page \in PagesOf(s) => mappings[i].page < q + k
  BY Zenon DEF LoadPages
<1>8. mappings \in Seq(Mapping)
  BY Zenon, <1>0 DEF Types
<1> HIDE DEF s, q, k, m
<1>9. /\ DOMAIN longer = 1..(Len(mappings) + 1) /\ DOMAIN mappings = 1..Len(mappings)
      /\ \A i \in 1..Len(mappings) : longer[i] = mappings[i]
      /\ longer[Len(mappings) + 1] = m /\ Len(mappings) \in Nat
  BY <1>5, <1>8
<1>10. \A i \in DOMAIN longer : (i \in DOMAIN mappings /\ longer[i] = mappings[i])
                                \/ (i = Len(mappings) + 1 /\ longer[i] = m)
  BY <1>9
<1> HIDE DEF longer
<1>11. \A i \in DOMAIN mappings : mappings[i].page \in Nat
  <2>1. \A i \in DOMAIN mappings : mappings[i] \in Mapping
    BY <1>8
  <2> QED
    BY <2>1 DEF Mapping, Page
<1>12. q + k \in PagesOf(s) /\ q + k \in Nat
  BY <1>3, <1>4 DEF PagesOf, q
<1>13. \A i \in DOMAIN mappings : mappings[i].page # q + k
  <2> SUFFICES ASSUME NEW i \in DOMAIN mappings, mappings[i].page = q + k PROVE FALSE
    BY Zenon
  <2>1. mappings[i].page < q + k
    BY Zenon, <1>7, <1>12
  <2> QED
    BY <1>12, <2>1
<1>14. OnePage(longer)
  <2> SUFFICES ASSUME NEW i \in DOMAIN longer, NEW j \in DOMAIN longer, i # j
               PROVE  longer[i].page # longer[j].page
    BY Zenon DEF OnePage
  <2> QED
    BY Zenon, <1>5, <1>7, <1>10, <1>13 DEF OnePage
<1>15. Clear(longer, Tail(segments))
  <2>1. ASSUME NEW j \in DOMAIN Tail(segments), Loadable(Tail(segments)[j])
        PROVE  q + k \notin PagesOf(Tail(segments)[j])
    <3>1. j + 1 \in DOMAIN segments /\ j + 1 # 1 /\ Tail(segments)[j] = segments[j + 1]
      BY Zenon, <1>1, Rest
    <3>2. PagesOf(segments[1]) \cap PagesOf(segments[j + 1]) = {}
      BY Zenon, <1>2, <1>6, <1>7, <2>1, <3>1 DEF SharesNoPage
    <3> QED
      BY Zenon, <1>2, <1>12, <3>1, <3>2
  <2>2. ASSUME NEW i \in DOMAIN longer, NEW j \in DOMAIN Tail(segments),
               Loadable(Tail(segments)[j])
        PROVE  longer[i].page \notin PagesOf(Tail(segments)[j])
    <3>1. CASE i \in DOMAIN mappings /\ longer[i] = mappings[i]
      BY Zenon, <1>7, <2>2, <3>1 DEF Clear
    <3>2. CASE longer[i] = m
      BY Zenon, <1>5, <2>1, <2>2, <3>2
    <3> QED
      BY Zenon, <1>10, <3>1, <3>2
  <2> QED
    BY Zenon, <2>2 DEF Clear
<1>16. ASSUME NEW i \in DOMAIN longer, longer[i].page \in PagesOf(s)
       PROVE  longer[i].page < q + k + 1
  <2>1. CASE i \in DOMAIN mappings /\ longer[i] = mappings[i]
    BY <1>3, <1>4, <1>7, <1>11, <1>16, <2>1
  <2>2. CASE longer[i] = m
    BY <1>3, <1>4, <1>5, <2>2
  <2> QED
    BY Zenon, <1>10, <2>1, <2>2
<1> QED
  BY Zenon, <1>14, <1>15, <1>16 DEF longer, s, q, k, m

(* Every step keeps the pages of the map being built apart from those to come. *)
LEMMA NextPages ==
  ASSUME WellLinked
  PROVE  IInv /\ SpaceTypes /\ LoadPages /\ [Next]_vars => LoadPages'
<1>s. SUFFICES ASSUME IInv, SpaceTypes, LoadPages, [Next]_vars PROVE LoadPages'
  BY Zenon
<1>0. Types /\ LoadInv /\ SpaceTypes /\ LoadPages
  BY Zenon, <1>s DEF IInv, Memory
<1>1. ASSUME NEW c \in Core, exec(c) PROVE LoadPages'
  <2>1. mappings = <<>>
    BY Zenon, <1>0, <1>1 DEF exec, LoadInv, LoadPages
  <2>2. SharesNoPage(segments')
    BY Zenon, <1>1 DEF exec, WellLinked
  <2>3. Clear(<<>>, segments') /\ OnePage(<<>>)
    BY DEF Clear, OnePage
  <2>4. at' \in {"load", "drop"} /\ UNCHANGED <<mappings, tasks>>
    BY Zenon, <1>1 DEF exec
  <2> QED
    BY Zenon, <1>0, <2>1, <2>2, <2>3, <2>4 DEF LoadPages
<1>2. ASSUME Load PROVE LoadPages'
  <2> DEFINE s == Head(segments)
  <2>1. /\ at = "load" /\ segments # <<>> /\ segments \in Seq(ProgramHeader)
        /\ UNCHANGED <<mappings, allocated, tasks>>
    BY Zenon, <1>0, <1>2 DEF Load, Types
  <2>2. /\ allocated = <<>> /\ SharesNoPage(segments) /\ OnePage(mappings)
        /\ Clear(mappings, segments) /\ \A i \in DOMAIN tasks : OnePage(tasks[i])
    BY Zenon, <1>0, <2>1 DEF LoadInv, LoadPages
  <2>3. SharesNoPage(Tail(segments)) /\ Clear(mappings, Tail(segments))
    BY Zenon, <2>1, <2>2, EntriesLeft
  <2>4. CASE ~s.load
    <3>1. at' = "load" /\ segments' = Tail(segments)
      BY Zenon, <1>2, <2>1, <2>4 DEF Load
    <3> QED
      BY Zenon, <2>1, <2>2, <2>3, <3>1 DEF LoadPages
  <2>5. CASE s.load /\ at' # "palloc"
    <3>1. at' \in {"drop", "panic"} /\ UNCHANGED segments
      BY Zenon, <1>2, <2>5 DEF Load
    <3> QED
      BY Zenon, <2>1, <2>2, <3>1 DEF LoadPages
  <2>6. CASE s.load /\ at' = "palloc"
    <3>1. UNCHANGED segments
      BY Zenon, <1>2, <2>6 DEF Load
    <3>2. ~InsecureLoad(s)
      <4>1. LoadInv'
        BY Zenon, <1>s, NextLoad
      <4> QED
        BY Zenon, <2>6, <3>1, <4>1 DEF LoadInv, InsecureLoad
    <3>3. s = segments[1] /\ 1 \in DOMAIN segments
      BY Zenon, <2>1, Rest
    <3>4. \A i \in DOMAIN mappings : mappings[i].page \notin PagesOf(s)
      <4>1. Loadable(s)
        BY <2>1, <2>6, <3>2, <3>3, LoadableIs
      <4> QED
        BY Zenon, <2>2, <3>3, <4>1 DEF Clear
    <3> HIDE DEF s
    <3>5. \A i \in DOMAIN mappings : mappings[i].page \in PagesOf(s)
             => mappings[i].page < page_start(s) + Len(allocated)
      BY Zenon, <3>4
    <3> QED
      BY Zenon, <2>1, <2>2, <2>3, <2>6, <3>1, <3>5 DEF LoadPages, s, PagesOf, page_start, pgn
  <2> QED
    BY Zenon, <2>4, <2>5, <2>6
<1>3. ASSUME allocate PROVE LoadPages'
  <2>1. /\ at = "palloc" /\ want > 0 /\ UNCHANGED <<segments, tasks>>
        /\ OnePage(mappings) /\ SharesNoPage(segments) /\ Head(segments).load
        /\ \A i \in DOMAIN tasks : OnePage(tasks[i])
    BY Zenon, <1>0, <1>3 DEF allocate, LoadPages
  <2>2. CASE free = {}
    <3>1. at' = "pfree_all" /\ UNCHANGED mappings
      BY Zenon, <1>3, <2>2 DEF allocate
    <3> QED
      BY Zenon, <2>1, <3>1 DEF LoadPages
  <2>3. CASE free # {}
    <3> DEFINE f == NewFrame
    <3>1. f \in Frame
      BY Zenon, <1>0, <2>3, Picked
    <3> HIDE DEF f
    <3>2. /\ at' = "palloc" /\ mappings' = Append(mappings, NextMapping(f))
          /\ allocated' = Append(allocated, f)
      BY Zenon, <1>3, <2>1, <2>3 DEF allocate, f
    <3>3. Len(allocated') = Len(allocated) + 1 /\ Len(allocated) \in Nat
      BY <1>0, <3>1, <3>2 DEF Types
    <3>4. OnePage(mappings') /\ Clear(mappings', Tail(segments))
      BY Zenon, <1>s, <1>0, <2>1, <3>1, <3>2, NextPage
    <3>5. \A i \in DOMAIN mappings' :
            mappings'[i].page \in PagesOf(Head(segments))
              => mappings'[i].page < page_start(Head(segments)) + Len(allocated) + 1
      BY Zenon, <1>s, <1>0, <2>1, <3>1, <3>2, NextPage
    <3>6. page_start(Head(segments)) + Len(allocated) + 1
            = page_start(Head(segments)) + Len(allocated')
      <4>1. page_start(Head(segments)) \in Nat
        <5>1. Head(segments) \in ProgramHeader
          BY <1>0, <2>1 DEF Types, LoadInv
        <5>2. Head(segments).vadr \in Nat
          BY Zenon, <5>1 DEF ProgramHeader
        <5> QED
          BY Zenon, <5>2, TaskAssumption, Division DEF page_start
      <4> QED
        BY <3>3, <4>1
    <3>7. \A i \in DOMAIN mappings' :
            mappings'[i].page \in PagesOf(Head(segments))
              => mappings'[i].page < page_start(Head(segments)) + Len(allocated')
      BY Zenon, <3>5, <3>6
    <3> QED
      BY Zenon, <2>1, <3>2, <3>4, <3>7 DEF LoadPages, PagesOf, page_start, pgn
  <2> QED
    BY Zenon, <2>2, <2>3
<1>4. ASSUME tmp_local_reserve PROVE LoadPages'
  <2>1. /\ at = "palloc" /\ at' \in {"panic", "load"} /\ UNCHANGED <<mappings, tasks>>
        /\ at' = "panic" => UNCHANGED segments
        /\ at' = "load" => segments' = Tail(segments)
    BY Zenon, <1>4 DEF tmp_local_reserve
  <2>2. segments \in Seq(ProgramHeader) /\ segments # <<>>
    BY Zenon, <1>0, <2>1 DEF Types, LoadInv
  <2>3. /\ SharesNoPage(segments) /\ OnePage(mappings) /\ Clear(mappings, Tail(segments))
        /\ \A i \in DOMAIN tasks : OnePage(tasks[i])
    BY Zenon, <1>0, <2>1 DEF LoadPages
  <2>4. SharesNoPage(Tail(segments))
    BY Zenon, <2>2, <2>3, EntriesLeft
  <2> QED
    BY Zenon, <2>1, <2>3, <2>4 DEF LoadPages
<1>5. ASSUME pfree_all PROVE LoadPages'
  BY Zenon, <1>0, <1>5 DEF pfree_all, LoadPages
<1>6. ASSUME drop PROVE LoadPages'
  <2>1. /\ at = "drop" /\ UNCHANGED tasks /\ OnePage(mappings) /\ SharesNoPage(segments)
        /\ \A i \in DOMAIN tasks : OnePage(tasks[i])
    BY Zenon, <1>0, <1>6 DEF drop, LoadPages
  <2>2. CASE mappings = <<>>
    <3>1. at' \in {"panic", "idle"} /\ segments' = <<>> /\ mappings' = <<>>
      BY Zenon, <1>6, <2>2 DEF drop
    <3>2. SharesNoPage(<<>>) /\ OnePage(<<>>)
      BY DEF SharesNoPage, OnePage
    <3> QED
      BY Zenon, <2>1, <3>1, <3>2 DEF LoadPages
  <2>3. CASE mappings # <<>>
    <3>1. at' = "drop" /\ mappings' = Tail(mappings) /\ UNCHANGED segments
      BY Zenon, <1>6, <2>1, <2>3 DEF drop
    <3>2. OnePage(Tail(mappings))
      BY Zenon, <1>0, <2>1, <2>3, TailPages DEF Types
    <3> QED
      BY Zenon, <2>1, <3>1, <3>2 DEF LoadPages
  <2> QED
    BY Zenon, <2>2, <2>3
<1>7. ASSUME new_locked PROVE LoadPages'
  <2>1. /\ tasks' = Append(tasks, mappings) /\ mappings' = <<>> /\ at' = "idle"
        /\ segments' = segments /\ OnePage(mappings) /\ SharesNoPage(segments)
        /\ \A i \in DOMAIN tasks : OnePage(tasks[i])
    BY Zenon, <1>0, <1>7 DEF new_locked, LoadPages
  <2>2. OnePage(<<>>)
    BY DEF OnePage
  <2>3. \A i \in DOMAIN tasks' : tasks'[i] = mappings \/ (i \in DOMAIN tasks /\ tasks'[i] = tasks[i])
    BY <1>0, <2>1 DEF Types
  <2>4. \A i \in DOMAIN tasks' : OnePage(tasks'[i])
    BY Zenon, <2>1, <2>3
  <2> QED
    BY Zenon, <2>1, <2>2, <2>4 DEF LoadPages
<1>8. ASSUME NEW c \in Core, exit_current(c) PROVE LoadPages'
  <2>1. PICK k \in DOMAIN tasks : tasks' = RemoveAt(tasks, k)
    BY Zenon, <1>8 DEF exit_current
  <2>2. Without(tasks, k, tasks')
    BY Zenon, <1>0, <2>1, RemoveTask DEF Types
  <2>3. \A i \in DOMAIN tasks' : \E j \in DOMAIN tasks : tasks'[i] = tasks[j]
    BY Zenon, <2>2 DEF Without
  <2>4. \A i \in DOMAIN tasks' : OnePage(tasks'[i])
    BY Zenon, <1>0, <2>3 DEF LoadPages
  <2>5. UNCHANGED <<at, mappings, segments, allocated>>
    BY Zenon, <1>8 DEF exit_current, loadVars
  <2> QED
    BY Zenon, <1>0, <2>4, <2>5 DEF LoadPages
<1>9. ASSUME NEW c \in Core, DropTask(c) \/ release(c) \/ dispatch(c) \/ apply(c)
      PROVE  LoadPages'
  <2>1. UNCHANGED <<at, mappings, segments, allocated, tasks>>
    BY Zenon, <1>9 DEF DropTask, release, dispatch, apply, loadVars
  <2> QED
    BY Zenon, <1>0, <2>1 DEF LoadPages
<1>10. CASE palloc \/ UNCHANGED vars
  <2>1. UNCHANGED <<at, mappings, segments, allocated, tasks>>
    BY Zenon, <1>10 DEF palloc, vars, loadVars
  <2> QED
    BY Zenon, <1>0, <2>1 DEF LoadPages
<1> QED
  BY Zenon, <1>s, <1>1, <1>2, <1>3, <1>4, <1>5, <1>6, <1>7, <1>8, <1>9, <1>10 DEF Next

(* MemoryMapping::apply: a mapping of the first task is put into the page table,
   and overwrites no other mapping of it. *)
LEMMA ApplyFirst ==
  ASSUME Types, SpaceTypes, FirstInv, NEW c \in Core, apply(c)
  PROVE  FirstInv'
<1>1. /\ applying[c] # <<>> /\ UNCHANGED <<running, first>>
      /\ applying[c] \in Seq(Mapping) /\ Head(applying[c]) \in Mapping
  BY DEF apply, SpaceTypes
<1> DEFINE m == Head(applying[c])
<1>2. /\ page_table' = [page_table EXCEPT ![m.page] = m.frame]
      /\ page_table \in [Page -> Frame \cup {NONE}] /\ m.page \in Page
  BY Zenon, <1>1 DEF apply, SpaceTypes, Mapping
<1>3. Range(applying[c]) = {m} \cup Range(Tail(applying[c]))
  BY Zenon, <1>1, Rest
<1>4. /\ applying'[c] = Tail(applying[c])
      /\ \A d \in Core \ {c} : applying'[d] = applying[d]
  BY Zenon DEF apply, SpaceTypes
<1>5. \A d \in Core \ {c} : active_mapping'[d] = active_mapping[d]
  BY Zenon DEF apply, SpaceTypes
<1> HIDE DEF m
<1>s. SUFFICES ASSUME first # NONE
               PROVE  /\ OnePage(first)
                      /\ \A d \in Core :
                           /\ Uses(d)' => first # <<>>
                           /\ running[d] \in {<<>>, first}
                           /\ Range(applying'[d]) \subseteq Range(first)
                           /\ Uses(d)' => \A n \in Range(first) :
                                n \in Range(applying'[d]) \/ page_table'[n.page] = n.frame
  BY Zenon, <1>1 DEF FirstInv
<1>6. /\ OnePage(first)
      /\ \A d \in Core : /\ Uses(d) => first # <<>>
                         /\ running[d] \in {<<>>, first}
                         /\ Range(applying[d]) \subseteq Range(first)
                         /\ Uses(d) => \A n \in Range(first) :
                              n \in Range(applying[d]) \/ page_table[n.page] = n.frame
  BY Zenon, <1>s DEF FirstInv
<1>7. m \in Range(first)
  BY Zenon, <1>3, <1>6
<1>8. \A n \in Range(first) : n.page = m.page => n = m
  BY <1>6, <1>7 DEF OnePage, Range
<1>9. \A n \in Range(first) :
        /\ n = m => page_table'[n.page] = n.frame
        /\ page_table[n.page] = n.frame => page_table'[n.page] = n.frame
  <2> SUFFICES ASSUME NEW n \in Range(first)
               PROVE  /\ n = m => page_table'[n.page] = n.frame
                      /\ page_table[n.page] = n.frame => page_table'[n.page] = n.frame
    BY Zenon
  <2>1. CASE n = m
    BY Zenon, <1>2, <2>1
  <2>2. CASE n # m
    <3>1. n.page # m.page
      BY Zenon, <1>8, <2>2
    <3>2. page_table'[n.page] = page_table[n.page] \/ n.page \notin Page
      BY Zenon, <1>2, <3>1
    <3>3. n.page \notin Page => page_table'[n.page] = page_table[n.page]
      BY <1>2, <3>1
    <3> QED
      BY Zenon, <2>2, <3>2, <3>3
  <2> QED
    BY Zenon, <2>1, <2>2
<1>10. \A d \in Core : Uses(d)' => Uses(d)
  BY Zenon, <1>1, <1>4, <1>5 DEF Uses
<1>11. \A d \in Core : \A n \in Range(applying[d]) : n \in Range(applying'[d]) \/ n = m
  BY Zenon, <1>3, <1>4
<1>12. \A d \in Core : Range(applying'[d]) \subseteq Range(first)
  BY Zenon, <1>3, <1>4, <1>6
<1>13. ASSUME NEW d \in Core, Uses(d)', NEW n \in Range(first)
       PROVE  n \in Range(applying'[d]) \/ page_table'[n.page] = n.frame
  BY Zenon, <1>6, <1>9, <1>10, <1>11, <1>13
<1> QED
  BY Zenon, <1>6, <1>10, <1>12, <1>13

(* tick, continue_current: the first task comes to a core that has applied its
   map, or applies it now. *)
LEMMA DispatchFirst ==
  ASSUME Types, SpaceTypes, LoadPages, FirstInv, NEW c \in Core, dispatch(c)
  PROVE  FirstInv'
<1>1. PICK i \in DOMAIN tasks :
        /\ \A d \in Core : running[d] # tasks[i]
        /\ running' = [running EXCEPT ![c] = tasks[i]]
        /\ applying' = [applying EXCEPT ![c] = ToApply(c, tasks[i])]
        /\ first' = IF first \in {<<>>, tasks[i]} THEN tasks[i] ELSE NONE
  BY Zenon DEF dispatch
<1> DEFINE map == tasks[i]
<1>2. /\ running[c] = <<>> /\ applying[c] = <<>> /\ UNCHANGED <<active_mapping, page_table>>
      /\ map # <<>> /\ OnePage(map)
  BY Zenon, <1>1 DEF dispatch, AtCall, LoadPages
<1>3. /\ running'[c] = map /\ applying'[c] = ToApply(c, map)
      /\ \A d \in Core \ {c} : running'[d] = running[d] /\ applying'[d] = applying[d]
  BY Zenon, <1>1 DEF Types, SpaceTypes
<1>4. first' \in {map, NONE} /\ (first' # NONE => first \in {<<>>, map})
  BY Zenon, <1>1
<1> HIDE DEF map
<1>s. SUFFICES ASSUME first' # NONE, first' = map, first \in {<<>>, map}
               PROVE  \A d \in Core :
                        /\ running'[d] \in {<<>>, map}
                        /\ Range(applying'[d]) \subseteq Range(map)
                        /\ Uses(d)' => \A n \in Range(map) :
                             n \in Range(applying'[d]) \/ page_table[n.page] = n.frame
  BY Zenon, <1>2, <1>4 DEF FirstInv
<1>5. Range(<<>>) = {}
  BY DEF Range
<1>6. first # NONE
  BY Zenon, <1>s, TaskAssumption
<1>7. \A d \in Core :
        /\ Uses(d) => first = map
        /\ running[d] \in {<<>>, map}
        /\ Range(applying[d]) \subseteq Range(map)
        /\ Uses(d) => \A n \in Range(map) :
             n \in Range(applying[d]) \/ page_table[n.page] = n.frame
  BY Zenon, <1>s, <1>5, <1>6 DEF FirstInv
<1>8. Range(applying'[c]) = IF active_mapping[c] THEN {} ELSE Range(map)
  BY Zenon, <1>3, <1>5 DEF ToApply
<1>9. \A d \in Core \ {c} : Uses(d)' => Uses(d)
  BY Zenon, <1>2, <1>3 DEF Uses
<1>10. active_mapping[c] => \A n \in Range(map) : page_table[n.page] = n.frame
  BY Zenon, <1>2, <1>5, <1>7 DEF Uses
<1> QED
  BY Zenon, <1>3, <1>7, <1>8, <1>9, <1>10

(* Every step keeps the first task's memory where it is. *)
LEMMA NextFirst == IInv /\ SpaceTypes /\ LoadPages /\ FirstInv /\ [Next]_vars => FirstInv'
<1>s. SUFFICES ASSUME IInv, SpaceTypes, LoadPages, FirstInv, [Next]_vars PROVE FirstInv'
  BY Zenon
<1>0. Types /\ SpaceTypes /\ LoadPages /\ FirstInv
  BY Zenon, <1>s DEF IInv, Memory
<1>1. CASE UNCHANGED spaceVars
  BY Zenon, <1>0, <1>1 DEF spaceVars, FirstInv, Uses
<1>2. ASSUME NEW c \in Core, exec(c) \/ DropTask(c) PROVE UNCHANGED spaceVars
  BY Zenon, <1>2 DEF exec, DropTask
<1>3. ASSUME \/ palloc \/ Load \/ allocate \/ tmp_local_reserve \/ pfree_all \/ drop
             \/ new_locked \/ UNCHANGED vars
      PROVE  UNCHANGED spaceVars
  BY Zenon, <1>3 DEF palloc, Load, allocate, tmp_local_reserve, pfree_all, drop, new_locked, vars
<1>4. ASSUME NEW c \in Core, exit_current(c) PROVE FirstInv'
  <2>1. running[c] # <<>> /\ first' = IF running[c] = first THEN NONE ELSE first
    BY Zenon, <1>4 DEF exit_current
  <2>2. first # NONE => running[c] \in {<<>>, first}
    BY Zenon, <1>0 DEF FirstInv
  <2>3. first' = NONE
    BY Zenon, <2>1, <2>2
  <2> QED
    BY Zenon, <2>3 DEF FirstInv
<1>5. ASSUME NEW c \in Core, release(c) PROVE FirstInv'
  <2>1. /\ UNCHANGED <<applying, active_mapping, page_table, first>>
        /\ \A d \in Core : running'[d] \in {<<>>, running[d]}
    BY Zenon, <1>0, <1>5 DEF release, Types
  <2>2. \A d \in Core : Uses(d)' => Uses(d)
    BY Zenon, <2>1 DEF Uses
  <2> QED
    BY Zenon, <1>0, <2>1, <2>2 DEF FirstInv
<1>6. ASSUME NEW c \in Core, dispatch(c) \/ apply(c) PROVE FirstInv'
  BY Zenon, <1>0, <1>6, DispatchFirst, ApplyFirst
<1> QED
  BY Zenon, <1>s, <1>1, <1>2, <1>3, <1>4, <1>5, <1>6 DEF Next

(* Every variable keeps its type: frames are frames in every map, in the page
   table and in what the kernel and the allocator have, and exactly the core in
   Task::exec, or one that panicked there, is the loader. *)
THEOREM TypeCorrect == Spec => []TypeOK
<1>1. IInv /\ SpaceTypes /\ [Next]_vars => IInv' /\ SpaceTypes'
  BY Zenon, NextLoad, NextMemory, NextTypes DEF IInv
<1>2. Init => IInv /\ SpaceTypes
  BY Zenon, InitIInv, InitSpace
<1>3. IInv /\ SpaceTypes => TypeOK
  <2> SUFFICES ASSUME IInv, SpaceTypes PROVE TypeOK
    BY Zenon
  <2>1. Types /\ SpaceTypes
    BY Zenon DEF IInv, Memory
  <2>2. ASSUME NEW map \in Seq(Mapping)
        PROVE  Range(map) \subseteq [page : Int, frame : Frame]
    <3>1. \A i \in DOMAIN map : map[i] \in Mapping
      OBVIOUS
    <3>2. Mapping \subseteq [page : Int, frame : Frame]
      BY DEF Mapping, Page
    <3> QED
      BY Zenon, <3>1, <3>2 DEF Range
  <2>3. {mappings} \cup Range(tasks) \cup Range(dropping) \cup Range(running)
          \cup Range(applying) \subseteq Seq(Mapping)
    <3>1. ASSUME NEW f \in [Core -> Seq(Mapping)] PROVE Range(f) \subseteq Seq(Mapping)
      BY Zenon DEF Range
    <3>2. Range(dropping) \subseteq Seq(Mapping)
      BY Zenon, <2>1, <3>1 DEF Types
    <3>3. Range(running) \subseteq Seq(Mapping)
      BY Zenon, <2>1, <3>1 DEF Types
    <3>4. Range(applying) \subseteq Seq(Mapping)
      BY Zenon, <2>1, <3>1 DEF SpaceTypes
    <3>5. \A i \in DOMAIN tasks : tasks[i] \in Seq(Mapping)
      <4>1. tasks \in Seq(Seq(Mapping))
        BY Zenon, <2>1 DEF Types
      <4> QED
        BY <4>1
    <3>6. Range(tasks) \subseteq Seq(Mapping)
      BY Zenon, <3>5 DEF Range
    <3>7. mappings \in Seq(Mapping)
      BY Zenon, <2>1 DEF Types
    <3> QED
      BY Zenon, <3>2, <3>3, <3>4, <3>6, <3>7
  <2>4. Range(allocated) \subseteq Frame /\ Range(page_table) \subseteq Frame \cup {NONE}
    <3>1. Range(allocated) \subseteq Frame
      <4>1. allocated \in Seq(Frame)
        BY Zenon, <2>1 DEF Types
      <4> QED
        BY <4>1 DEF Range
    <3>2. Range(page_table) \subseteq Frame \cup {NONE}
      BY Zenon, <2>1 DEF SpaceTypes, Range
    <3> QED
      BY Zenon, <3>1, <3>2
  <2>5. {failed} \cup Range(active_mapping) \subseteq BOOLEAN
    BY Zenon, <2>1 DEF SpaceTypes, Range
  <2>6. \A map \in {mappings} \cup Range(tasks) \cup Range(dropping) \cup Range(running)
                   \cup Range(applying) : Range(map) \subseteq [page : Int, frame : Frame]
    BY Zenon, <2>2, <2>3
  <2> QED
    BY Zenon, <2>1, <2>4, <2>5, <2>6 DEF Types, SpaceTypes, TypeOK
<1> QED
  BY <1>1, <1>2, <1>3, PTL DEF Spec

(* For any number of cores, tasks and images none of which has a page in two
   entries: until a second task is dispatched or it exits, the first task runs
   in the memory that was loaded for it, on every core that takes it over. *)
THEOREM FirstTaskInItsMemory ==
  ASSUME WellLinked
  PROVE  Spec => []FirstInItsMemory
<1> DEFINE Inv == IInv /\ SpaceTypes /\ LoadPages /\ FirstInv
<1>1. Inv /\ [Next]_vars => Inv'
  BY Zenon, NextLoad, NextMemory, NextTypes, NextPages, NextFirst DEF IInv
<1>2. Init => Inv
  BY Zenon, InitIInv, InitSpace
<1>3. Inv => FirstInItsMemory
  BY DEF FirstInv, FirstInItsMemory, InItsMemory, Uses, Range
<1> QED
  BY <1>1, <1>2, <1>3, PTL DEF Spec
=============================================================================
