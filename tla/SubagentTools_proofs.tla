------------------------- MODULE SubagentTools_proofs -------------------------
(* Proofs about SubagentTools for any tools, slots and nesting depth.      *)
EXTENDS SubagentTools, TLAPS

(* Only a filtered subagent filters or restores; while the registry is its *)
(* own, the tools it has yet to disable are the ones in its loop.          *)
FilterProgress ==
    \A s \in Slots, d \in Levels :
        /\ frames[s][d].pc \in {"list", "stash", "drop", "restore"}
             => frames[s][d].filter # "none"
        /\ frames[s][d].alone /\ frames[s][d].pc \in {"stash", "drop"}
             => tools \ Allowed[frames[s][d].filter] \subseteq frames[s][d].todo

(* A subagent that has the registry to itself has no filtered one beside   *)
(* it or inside it, and none at all inside it if it is read-only.          *)
OwnRegistry ==
    \A s \in Slots, d \in Levels : frames[s][d].alone =>
        /\ \A u \in Slots \ {s} : ~Filtered(u)
        /\ \A e \in Levels : e > d =>
              frames[s][e].filter = "none" \/ frames[s][e].pc = "called"
        /\ d < depth[s] => frames[s][d].filter # "readonly"

(* Without an overlap one slot at most has filtered subagents, what is     *)
(* taken out is remembered, and what is put back is what was disabled.     *)
OneFilteredSlot ==
    ~overlapped => \A s, u \in Slots : Filtered(s) /\ Filtered(u) => s = u

Remembered ==
    ~overlapped => \A s \in Slots, d \in Levels :
        /\ frames[s][d].pc = "drop" => frames[s][d].names \subseteq disabled
        /\ frames[s][d].pc = "restore" =>
              /\ frames[s][d].names = disabled
              /\ disabled \ frames[s][d].todo \subseteq tools

ToolInv ==
    /\ TypeOK /\ FilterHolds /\ NothingLost
    /\ FilterProgress /\ OwnRegistry /\ OneFilteredSlot /\ Remembered

------------------------------------------------------------------------------
LEMMA AllowedType == Allowed \in [Filters -> SUBSET Tools]
BY ToolAssumption DEF Allowed, Filters

LEMMA NoFrameType == NoFrame \in FrameType /\ NoFrame.pc = "none"
                     /\ NoFrame.filter = "none" /\ ~NoFrame.alone
BY DEF NoFrame, Frame, FrameType, Filters

LEMMA InitToolInv == Init => ToolInv
<1> SUFFICES ASSUME Init PROVE ToolInv
  OBVIOUS
<1>1. \A s \in Slots, d \in Levels : frames[s][d] = NoFrame
  BY DEF Init
<1>2. TypeOK
  <2>1. frames \in [Slots -> [Levels -> FrameType]]
    BY NoFrameType DEF Init
  <2>2. depth \in [Slots -> 0..MaxDepth] /\ 0 \in 0..MaxCalls
    BY ToolAssumption DEF Init
  <2>3. \A s \in Slots, d \in Levels : depth[s] = 0 /\ d \in Nat /\ d > 0
    BY ToolAssumption DEF Init, Levels
  <2>4. \A s \in Slots, d \in Levels :
           /\ d < depth[s] => frames[s][d].pc = "work"
           /\ d = depth[s] => frames[s][d].pc # "none"
           /\ d > depth[s] => frames[s][d] = NoFrame
    BY <1>1, <2>3
  <2> QED BY <2>1, <2>2, <2>4 DEF Init, TypeOK
<1>3. \A s \in Slots : ~Filtered(s)
  BY <1>1, NoFrameType DEF Filtered
<1>4. FilterHolds /\ FilterProgress /\ OwnRegistry /\ Remembered
  BY <1>1, NoFrameType DEF FilterHolds, FilterProgress, OwnRegistry, Remembered
<1>5. NothingLost /\ OneFilteredSlot
  BY <1>3 DEF Init, NothingLost, OneFilteredSlot
<1> QED BY <1>2, <1>4, <1>5 DEF ToolInv

------------------------------------------------------------------------------
(* The frame a thread works on, and the shape of a step that changes it    *)
(* alone.                                                                  *)
LEMMA TopFrame ==
    ASSUME TypeOK, NEW s \in Slots, NEW pc, At(s, pc)
    PROVE  /\ depth[s] \in Levels /\ depth[s] \in 1..MaxDepth
           /\ Top(s) = frames[s][depth[s]] /\ Top(s) \in FrameType /\ Top(s).pc = pc
BY ToolAssumption DEF TypeOK, At, Top, Levels

OnlyTop(s, f) ==
    \A u \in Slots, d \in Levels :
        frames'[u][d] = IF u = s /\ d = depth[s] THEN f ELSE frames[u][d]

LEMMA SetTopOnly ==
    ASSUME TypeOK, NEW s \in Slots, depth[s] \in Levels, NEW f \in FrameType, SetTop(s, f)
    PROVE  OnlyTop(s, f) /\ frames' \in [Slots -> [Levels -> FrameType]]
<1>1. frames \in [Slots -> [Levels -> FrameType]]
  BY DEF TypeOK
<1>2. frames' = [frames EXCEPT ![s] = [frames[s] EXCEPT ![depth[s]] = f]]
  BY <1>1 DEF SetTop
<1>3. [frames[s] EXCEPT ![depth[s]] = f] \in [Levels -> FrameType]
  BY <1>1
<1> QED BY <1>1, <1>2, <1>3 DEF OnlyTop

(* What the types say of one level of one stack.                           *)
LevelAt(u, d) ==
    /\ d \in Nat /\ depth[u] \in Nat
    /\ d < depth[u] => frames[u][d].pc = "work"
    /\ d = depth[u] => frames[u][d].pc # "none"
    /\ d > depth[u] => frames[u][d] = NoFrame

LEMMA LevelFacts ==
    ASSUME TypeOK PROVE \A u \in Slots, d \in Levels : LevelAt(u, d)
<1> SUFFICES ASSUME NEW u \in Slots, NEW d \in Levels PROVE LevelAt(u, d)
  OBVIOUS
<1>1. d \in Nat /\ depth[u] \in Nat
  BY ToolAssumption DEF TypeOK, Levels
<1> QED BY <1>1 DEF TypeOK, LevelAt

(* A step of a subagent that stays on its stack keeps the types.           *)
LEMMA StayType ==
    ASSUME TypeOK, NEW s \in Slots, depth[s] \in Levels, NEW f \in FrameType,
           SetTop(s, f), f.pc # "none", depth' = depth,
           tools' \subseteq Tools, disabled' \subseteq Tools,
           UNCHANGED <<calls, overlapped>>
    PROVE  TypeOK'
<1>1. OnlyTop(s, f) /\ frames' \in [Slots -> [Levels -> FrameType]]
  BY SetTopOnly
<1>2. ASSUME NEW u \in Slots, NEW d \in Levels
      PROVE  /\ d < depth'[u] => frames'[u][d].pc = "work"
             /\ d = depth'[u] => frames'[u][d].pc # "none"
             /\ d > depth'[u] => frames'[u][d] = NoFrame
  <2>1. LevelAt(u, d)
    BY LevelFacts
  <2>2. frames'[u][d] = IF u = s /\ d = depth[s] THEN f ELSE frames[u][d]
    BY <1>1 DEF OnlyTop
  <2>3. CASE u = s /\ d = depth[s]
    BY <2>1, <2>2, <2>3 DEF LevelAt
  <2>4. CASE ~(u = s /\ d = depth[s])
    BY <2>1, <2>2, <2>4 DEF LevelAt
  <2> QED BY <2>3, <2>4
<1> QED BY <1>1, <1>2 DEF TypeOK

(* A subagent that leaves its stack was on top of it.                      *)
LEMMA PopType ==
    ASSUME TypeOK, NEW s \in Slots, depth[s] \in Levels, Pop(s),
           UNCHANGED <<tools, disabled, calls, overlapped>>
    PROVE  TypeOK' /\ OnlyTop(s, NoFrame)
<1>1. OnlyTop(s, NoFrame) /\ frames' \in [Slots -> [Levels -> FrameType]]
  BY SetTopOnly, NoFrameType DEF Pop
<1>2. depth' \in [Slots -> 0..MaxDepth]
  BY ToolAssumption DEF Pop, TypeOK, Levels
<1>3. \A u \in Slots : depth'[u] = IF u = s THEN depth[s] - 1 ELSE depth[u]
  BY DEF Pop, TypeOK
<1>4. depth[s] \in Nat /\ MaxDepth \in Nat
  BY ToolAssumption DEF Levels
<1>5. ASSUME NEW u \in Slots, NEW d \in Levels
      PROVE  /\ d < depth'[u] => frames'[u][d].pc = "work"
             /\ d = depth'[u] => frames'[u][d].pc # "none"
             /\ d > depth'[u] => frames'[u][d] = NoFrame
  <2>1. LevelAt(u, d)
    BY LevelFacts
  <2>2. frames'[u][d] = IF u = s /\ d = depth[s] THEN NoFrame ELSE frames[u][d]
    BY <1>1 DEF OnlyTop
  <2>3. depth'[u] = IF u = s THEN depth[s] - 1 ELSE depth[u]
    BY <1>3
  <2>4. CASE u = s /\ d = depth[s]
    BY <2>1, <2>2, <2>3, <2>4 DEF LevelAt
  <2>5. CASE u = s /\ d # depth[s]
    <3>1. frames'[u][d] = frames[u][d] /\ depth'[u] = depth[u] - 1
      BY <2>2, <2>3, <2>5
    <3>2. d < depth[u] \/ d > depth[u]
      BY <2>1, <2>5 DEF LevelAt
    <3> QED BY <2>1, <3>1, <3>2 DEF LevelAt
  <2>6. CASE u # s
    BY <2>1, <2>2, <2>3, <2>6 DEF LevelAt
  <2> QED BY <2>4, <2>5, <2>6
<1> QED BY <1>1, <1>2, <1>5 DEF TypeOK

------------------------------------------------------------------------------
(* A filtered subagent that has begun leaves no other one the registry to  *)
(* itself and, without an overlap, is the only one to disable or restore.  *)
LEMMA OthersIdle ==
    ASSUME ToolInv, NEW s \in Slots, depth[s] \in Levels,
           Top(s).filter # "none", Top(s).pc # "called"
    PROVE  /\ Filtered(s)
           /\ \A u \in Slots, d \in Levels : (u # s \/ d # depth[s]) =>
                 /\ ~frames[u][d].alone
                 /\ ~overlapped => frames[u][d].pc \notin {"drop", "restore"}
<1>1. Filtered(s)
  BY DEF Filtered, Top
<1>2. ASSUME NEW u \in Slots, NEW d \in Levels, u # s \/ d # depth[s]
      PROVE  /\ ~frames[u][d].alone
             /\ ~overlapped => frames[u][d].pc \notin {"drop", "restore"}
  <2>1. LevelAt(u, d) /\ LevelAt(s, d)
    BY LevelFacts DEF ToolInv
  <2>2. CASE u # s
    <3>1. ~frames[u][d].alone
      BY <1>1, <2>2 DEF ToolInv, OwnRegistry
    <3>2. ~overlapped => ~Filtered(u)
      BY <1>1, <2>2 DEF ToolInv, OneFilteredSlot
    <3>3. ~overlapped => frames[u][d].pc \notin {"drop", "restore"}
      BY <3>2 DEF ToolInv, FilterProgress, Filtered
    <3> QED BY <3>1, <3>3
  <2>3. CASE u = s /\ d > depth[s]
    BY <2>1, <2>3, NoFrameType DEF LevelAt
  <2>4. CASE u = s /\ d < depth[s]
    <3>1. frames[u][d].pc = "work"
      BY <2>1, <2>4 DEF LevelAt
    <3>2. ~frames[u][d].alone
      BY <2>1, <2>4 DEF ToolInv, OwnRegistry, Top, LevelAt
    <3> QED BY <3>1, <3>2
  <2>5. u # s \/ d > depth[s] \/ d < depth[s]
    BY <1>2, <2>1 DEF LevelAt
  <2> QED BY <2>2, <2>3, <2>4, <2>5
<1> QED BY <1>1, <1>2

(* A step of a filtered subagent that stays: what it must see to.          *)
LEMMA FilteredStep ==
    ASSUME ToolInv, NEW s \in Slots, depth[s] \in Levels,
           Top(s).filter # "none", Top(s).pc # "called",
           NEW f \in FrameType, SetTop(s, f), depth' = depth,
           f.filter = Top(s).filter, f.alone = Top(s).alone,
           f.pc \notin {"none", "called"},
           UNCHANGED <<calls, overlapped>>,
           tools' \subseteq Tools, disabled' \subseteq Tools,
           f.alone /\ f.pc = "work" => tools' \subseteq Allowed[f.filter],
           f.alone /\ f.pc \in {"stash", "drop"}
             => tools' \ Allowed[f.filter] \subseteq f.todo,
           ~overlapped =>
             /\ tools' \cup disabled' = Tools
             /\ f.pc = "drop" => f.names \subseteq disabled'
             /\ f.pc = "restore" => f.names = disabled' /\ disabled' \ f.todo \subseteq tools'
    PROVE  ToolInv'
<1>1. TypeOK'
  BY StayType DEF ToolInv
<1>2. OnlyTop(s, f)
  BY SetTopOnly DEF ToolInv
<1>3. \A u \in Slots, d \in Levels :
        /\ frames'[u][d].filter = frames[u][d].filter
        /\ frames'[u][d].alone = frames[u][d].alone
        /\ frames'[u][d].pc = "called" <=> frames[u][d].pc = "called"
  BY <1>2 DEF OnlyTop, Top
<1>4. \A u \in Slots : Filtered(u)' <=> Filtered(u)
  BY <1>3 DEF Filtered
<1>5. OwnRegistry'
  BY <1>3, <1>4 DEF ToolInv, OwnRegistry
<1>6. OneFilteredSlot'
  BY <1>4 DEF ToolInv, OneFilteredSlot
<1>7. \A u \in Slots, d \in Levels :
        \/ u = s /\ d = depth[s] /\ frames'[u][d] = f
        \/ /\ frames'[u][d] = frames[u][d] /\ ~frames[u][d].alone
           /\ ~overlapped => frames[u][d].pc \notin {"drop", "restore"}
  BY <1>2, OthersIdle DEF OnlyTop
<1>8. FilterHolds'
  BY <1>7 DEF FilterHolds
<1>9. FilterProgress'
  BY <1>7 DEF ToolInv, FilterProgress
<1>10. Remembered'
  BY <1>7 DEF Remembered
<1>11. NothingLost'
  BY <1>4, OthersIdle DEF NothingLost
<1> QED BY <1>1, <1>5, <1>6, <1>8, <1>9, <1>10, <1>11 DEF ToolInv

------------------------------------------------------------------------------
LEMMA ListKeeps ==
    ASSUME ToolInv, NEW s \in Slots, List(s) PROVE ToolInv'
<1> DEFINE denied == tools \ Allowed[Top(s).filter]
           f == [Top(s) EXCEPT !.todo = denied,
                               !.pc = IF denied = {} THEN "work" ELSE "stash"]
<1>1. depth[s] \in Levels /\ Top(s) \in FrameType /\ Top(s).pc = "list"
  BY TopFrame DEF List, ToolInv
<1>2. Top(s).filter # "none"
  BY <1>1 DEF ToolInv, FilterProgress, Top
<1>3. denied \subseteq Tools
  BY DEF ToolInv, TypeOK
<1>4. /\ f \in FrameType /\ f.filter = Top(s).filter /\ f.alone = Top(s).alone
      /\ f.todo = denied /\ f.pc = IF denied = {} THEN "work" ELSE "stash"
  BY <1>1, <1>3 DEF FrameType
<1>5. SetTop(s, f) /\ UNCHANGED <<tools, disabled, depth, calls, overlapped>>
  BY DEF List
<1>6. tools \subseteq Tools /\ disabled \subseteq Tools
  BY DEF ToolInv, TypeOK
<1>7. ~overlapped => tools \cup disabled = Tools
  BY DEF ToolInv, NothingLost
<1>8. denied = {} => tools \subseteq Allowed[Top(s).filter]
  OBVIOUS
<1> HIDE DEF f
<1> QED BY <1>1, <1>2, <1>4, <1>5, <1>6, <1>7, <1>8, FilteredStep

LEMMA StashKeeps ==
    ASSUME ToolInv, NEW s \in Slots, Stash(s) PROVE ToolInv'
<1>1. depth[s] \in Levels /\ Top(s) \in FrameType /\ Top(s).pc = "stash"
  BY TopFrame DEF Stash, ToolInv
<1>2. Top(s).filter # "none"
  BY <1>1 DEF ToolInv, FilterProgress, Top
<1>3. Top(s).alone => tools \ Allowed[Top(s).filter] \subseteq Top(s).todo
  BY <1>1 DEF ToolInv, FilterProgress, Top
<1>4. tools \subseteq Tools /\ disabled \subseteq Tools
  BY DEF ToolInv, TypeOK
<1>5. ~overlapped => tools \cup disabled = Tools
  BY DEF ToolInv, NothingLost
<1>6. UNCHANGED <<tools, depth, calls, overlapped>>
  BY DEF Stash
<1>7. PICK t \in Top(s).todo :
        IF t \in tools
        THEN /\ disabled' = disabled \cup {t}
             /\ SetTop(s, [Top(s) EXCEPT !.pc = "drop", !.names = {t}])
        ELSE LET rest == Top(s).todo \ {t}
             IN  /\ disabled' = disabled
                 /\ SetTop(s, [Top(s) EXCEPT !.todo = rest,
                                             !.pc = IF rest = {} THEN "work" ELSE "stash"])
  BY DEF Stash
<1>8. CASE t \in tools
  <2> DEFINE f == [Top(s) EXCEPT !.pc = "drop", !.names = {t}]
  <2>1. /\ f \in FrameType /\ f.filter = Top(s).filter /\ f.alone = Top(s).alone
        /\ f.todo = Top(s).todo /\ f.names = {t} /\ f.pc = "drop"
    BY <1>1, <1>4, <1>8 DEF FrameType
  <2>2. SetTop(s, f) /\ disabled' = disabled \cup {t}
    BY <1>7, <1>8
  <2> HIDE DEF f
  <2>3. disabled' \subseteq Tools /\ f.names \subseteq disabled'
    BY <1>4, <1>8, <2>1, <2>2
  <2>4. ~overlapped => tools \cup disabled' = Tools
    BY <1>4, <1>5, <1>8, <2>2
  <2> QED BY <1>1, <1>2, <1>3, <1>4, <1>6, <2>1, <2>2, <2>3, <2>4, FilteredStep
<1>9. CASE t \notin tools
  <2> DEFINE rest == Top(s).todo \ {t}
             f == [Top(s) EXCEPT !.todo = rest,
                                 !.pc = IF rest = {} THEN "work" ELSE "stash"]
  <2>1. /\ f \in FrameType /\ f.filter = Top(s).filter /\ f.alone = Top(s).alone
        /\ f.todo = rest /\ f.pc = IF rest = {} THEN "work" ELSE "stash"
    BY <1>1 DEF FrameType
  <2>2. SetTop(s, f) /\ disabled' = disabled
    BY <1>7, <1>9
  <2>3. Top(s).alone => tools \ Allowed[Top(s).filter] \subseteq rest
    BY <1>3, <1>9
  <2>4. Top(s).alone /\ rest = {} => tools \subseteq Allowed[Top(s).filter]
    BY <2>3
  <2> HIDE DEF f
  <2> QED BY <1>1, <1>2, <1>4, <1>5, <1>6, <2>1, <2>2, <2>3, <2>4, FilteredStep
<1> QED BY <1>8, <1>9

LEMMA DropKeeps ==
    ASSUME ToolInv, NEW s \in Slots, Drop(s) PROVE ToolInv'
<1> DEFINE rest == Top(s).todo \ Top(s).names
           f == [Top(s) EXCEPT !.todo = rest, !.names = {},
                               !.pc = IF rest = {} THEN "work" ELSE "stash"]
<1>1. depth[s] \in Levels /\ Top(s) \in FrameType /\ Top(s).pc = "drop"
  BY TopFrame DEF Drop, ToolInv
<1>2. Top(s).filter # "none"
  BY <1>1 DEF ToolInv, FilterProgress, Top
<1>3. /\ f \in FrameType /\ f.filter = Top(s).filter /\ f.alone = Top(s).alone
      /\ f.todo = rest /\ f.pc = IF rest = {} THEN "work" ELSE "stash"
  BY <1>1 DEF FrameType
<1>4. /\ tools' = tools \ Top(s).names /\ SetTop(s, f)
      /\ UNCHANGED <<disabled, depth, calls, overlapped>>
  BY DEF Drop
<1>5. tools' \subseteq Tools /\ disabled' \subseteq Tools
  BY <1>4 DEF ToolInv, TypeOK
<1>6. Top(s).alone => tools' \ Allowed[Top(s).filter] \subseteq rest
  BY <1>1, <1>4 DEF ToolInv, FilterProgress, Top
<1>7. Top(s).alone /\ rest = {} => tools' \subseteq Allowed[Top(s).filter]
  BY <1>6
<1>8. ~overlapped => tools' \cup disabled' = Tools
  BY <1>1, <1>4, <1>5 DEF ToolInv, NothingLost, Remembered, Top
<1> HIDE DEF f
<1> QED BY <1>1, <1>2, <1>3, <1>4, <1>5, <1>6, <1>7, <1>8, FilteredStep

LEMMA PutBackKeeps ==
    ASSUME ToolInv, NEW s \in Slots, PutBack(s) PROVE ToolInv'
<1>1. depth[s] \in Levels /\ Top(s) \in FrameType /\ Top(s).pc = "restore"
  BY TopFrame DEF PutBack, ToolInv
<1>2. Top(s).filter # "none"
  BY <1>1 DEF ToolInv, FilterProgress, Top
<1>3. PICK t \in Top(s).todo :
        tools' = tools \cup {t} /\ SetTop(s, [Top(s) EXCEPT !.todo = @ \ {t}])
  BY DEF PutBack
<1> DEFINE f == [Top(s) EXCEPT !.todo = @ \ {t}]
<1>4. /\ f \in FrameType /\ f.filter = Top(s).filter /\ f.alone = Top(s).alone
      /\ f.todo = Top(s).todo \ {t} /\ f.names = Top(s).names /\ f.pc = "restore"
      /\ t \in Tools
  BY <1>1 DEF FrameType
<1>5. SetTop(s, f) /\ UNCHANGED <<disabled, depth, calls, overlapped>>
  BY <1>3 DEF PutBack
<1>6. tools' \subseteq Tools /\ disabled' \subseteq Tools
  BY <1>3, <1>4, <1>5 DEF ToolInv, TypeOK
<1>7. ~overlapped => /\ tools' \cup disabled' = Tools
                     /\ Top(s).names = disabled' /\ disabled' \ f.todo \subseteq tools'
  BY <1>1, <1>3, <1>4, <1>5, <1>6 DEF ToolInv, NothingLost, Remembered, Top
<1> HIDE DEF f
<1> QED BY <1>1, <1>2, <1>4, <1>5, <1>6, <1>7, FilteredStep

(* A subagent that leaves its stack without touching the registry.         *)
LEMMA PopKeeps ==
    ASSUME ToolInv, NEW s \in Slots, depth[s] \in Levels, Pop(s),
           UNCHANGED <<tools, disabled, calls, overlapped>>,
           Top(s).filter = "none" \/ overlapped
    PROVE  ToolInv'
<1>1. TypeOK' /\ OnlyTop(s, NoFrame)
  BY PopType DEF ToolInv
<1>2. \A u \in Slots, d \in Levels :
        \/ frames'[u][d] = frames[u][d]
        \/ u = s /\ d = depth[s] /\ frames'[u][d] = NoFrame
  BY <1>1 DEF OnlyTop
<1>3. \A u \in Slots : Filtered(u)' => Filtered(u)
  BY <1>2, NoFrameType DEF Filtered
<1>4. Top(s).filter = "none" => \A u \in Slots : Filtered(u) => Filtered(u)'
  BY <1>2 DEF Filtered, Top
<1>5. FilterHolds' /\ FilterProgress'
  BY <1>2, NoFrameType DEF ToolInv, FilterHolds, FilterProgress
<1>6. OwnRegistry'
  <2> SUFFICES ASSUME NEW u \in Slots, NEW d \in Levels, frames'[u][d].alone
               PROVE  /\ \A v \in Slots \ {u} : ~Filtered(v)'
                      /\ \A e \in Levels : e > d =>
                            frames'[u][e].filter = "none" \/ frames'[u][e].pc = "called"
                      /\ d < depth'[u] => frames'[u][d].filter # "readonly"
    BY DEF OwnRegistry
  <2>1. frames'[u][d] = frames[u][d]
    BY <1>2, NoFrameType
  <2>2. \A e \in Levels : e > d =>
          frames'[u][e].filter = "none" \/ frames'[u][e].pc = "called"
    BY <1>2, <2>1, NoFrameType DEF ToolInv, OwnRegistry
  <2>3. d < depth'[u] => d < depth[u]
    <3>1. depth'[u] = IF u = s THEN depth[s] - 1 ELSE depth[u]
      BY DEF Pop, ToolInv, TypeOK
    <3>2. d \in Nat /\ depth[u] \in Nat
      BY LevelFacts DEF ToolInv, LevelAt
    <3> QED BY <3>1, <3>2
  <2> QED BY <1>3, <2>1, <2>2, <2>3 DEF ToolInv, OwnRegistry
<1>7. OneFilteredSlot'
  BY <1>3 DEF ToolInv, OneFilteredSlot
<1>8. Remembered'
  BY <1>2, NoFrameType DEF ToolInv, Remembered
<1>9. NothingLost'
  BY <1>4 DEF ToolInv, NothingLost
<1> QED BY <1>1, <1>5, <1>6, <1>7, <1>8, <1>9 DEF ToolInv

LEMMA FinishKeeps ==
    ASSUME ToolInv, NEW s \in Slots, Finish(s) PROVE ToolInv'
<1>1. depth[s] \in Levels /\ Top(s) \in FrameType /\ Top(s).pc = "work"
  BY TopFrame DEF Finish, ToolInv
<1>2. CASE Top(s).filter = "none"
  BY <1>1, <1>2, PopKeeps DEF Finish
<1>3. CASE Top(s).filter # "none"
  <2> DEFINE f == [Top(s) EXCEPT !.pc = "restore", !.todo = disabled,
                                 !.names = disabled, !.attached = TRUE]
  <2>1. disabled \subseteq Tools /\ tools \subseteq Tools
    BY DEF ToolInv, TypeOK
  <2>2. /\ f \in FrameType /\ f.filter = Top(s).filter /\ f.alone = Top(s).alone
        /\ f.todo = disabled /\ f.names = disabled /\ f.pc = "restore"
    BY <1>1, <2>1 DEF FrameType
  <2>3. SetTop(s, f) /\ UNCHANGED <<tools, disabled, depth, calls, overlapped>>
    BY <1>3 DEF Finish
  <2>4. ~overlapped => tools \cup disabled = Tools
    BY DEF ToolInv, NothingLost
  <2> HIDE DEF f
  <2> QED BY <1>1, <1>3, <2>1, <2>2, <2>3, <2>4, FilteredStep
<1> QED BY <1>2, <1>3

(* Without an overlap nobody disables a tool while one subagent restores.  *)
LEMMA BreakKeeps ==
    ASSUME ToolInv, NEW s \in Slots, Break(s) PROVE ToolInv'
<1>1. depth[s] \in Levels /\ Top(s).pc = "restore"
  BY TopFrame DEF Break, ToolInv
<1>2. overlapped
  BY <1>1 DEF ToolInv, Remembered, Break, Grown, Top
<1> QED BY <1>1, <1>2, PopKeeps DEF Break

LEMMA Detached ==
    ASSUME NEW f \in FrameType
    PROVE  LET g == [f EXCEPT !.attached = FALSE]
           IN  /\ g \in FrameType /\ g.filter = f.filter /\ g.pc = f.pc
               /\ g.alone = f.alone
               /\ ~f.attached => g = f
BY DEF FrameType

(* The subagent leaves with every tool back, and the others lose only      *)
(* their hold on the old dictionary.                                       *)
LEMMA ClearKeeps ==
    ASSUME ToolInv, NEW s \in Slots, Clear(s) PROVE ToolInv'
<1>1. depth[s] \in Levels /\ Top(s) \in FrameType /\ Top(s).pc = "restore"
  BY TopFrame DEF Clear, ToolInv
<1>2. Top(s).filter # "none"
  BY <1>1 DEF ToolInv, FilterProgress, Top
<1>3. /\ disabled' = {} /\ tools' = tools /\ calls' = calls /\ overlapped' = overlapped
      /\ depth' = [depth EXCEPT ![s] = @ - 1]
  BY DEF Clear
<1>4. \A u \in Slots, d \in Levels : frames[u][d] \in FrameType
  BY DEF ToolInv, TypeOK
<1>5. \A u \in Slots, d \in Levels :
        frames'[u][d] = IF u = s /\ d = depth[s] THEN NoFrame
                        ELSE [frames[u][d] EXCEPT !.attached = FALSE]
  BY DEF Clear
<1>6. \A u \in Slots, d \in Levels :
        \/ u = s /\ d = depth[s] /\ frames'[u][d] = NoFrame
        \/ /\ u # s \/ d # depth[s]
           /\ frames'[u][d].filter = frames[u][d].filter
           /\ frames'[u][d].pc = frames[u][d].pc
           /\ frames'[u][d].alone = frames[u][d].alone
           /\ ~frames[u][d].alone
           /\ ~overlapped => frames[u][d].pc \notin {"drop", "restore"}
  <2> TAKE u \in Slots, d \in Levels
  <2>1. CASE u = s /\ d = depth[s]
    BY <1>5, <2>1
  <2>2. CASE u # s \/ d # depth[s]
    <3>1. frames'[u][d] = [frames[u][d] EXCEPT !.attached = FALSE]
      BY <1>5, <2>2
    <3>2. /\ frames'[u][d].filter = frames[u][d].filter
          /\ frames'[u][d].pc = frames[u][d].pc
          /\ frames'[u][d].alone = frames[u][d].alone
      BY <1>4, <3>1, Detached
    <3> QED BY <1>1, <1>2, <2>2, <3>2, OthersIdle
  <2> QED BY <2>1, <2>2
<1>7. TypeOK'
  <2>1. \A u \in Slots, d \in Levels : frames'[u][d] \in FrameType
    <3> TAKE u \in Slots, d \in Levels
    <3>1. [frames[u][d] EXCEPT !.attached = FALSE] \in FrameType
      BY <1>4, Detached
    <3> QED BY <1>5, <3>1, NoFrameType
  <2>2. frames' \in [Slots -> [Levels -> FrameType]]
    <3>1. frames' = [u \in Slots |-> [d \in Levels |->
            IF u = s /\ d = depth[s] THEN NoFrame
            ELSE [frames[u][d] EXCEPT !.attached = FALSE]]]
      BY DEF Clear
    <3>2. \A u \in Slots, d \in Levels :
            (IF u = s /\ d = depth[s] THEN NoFrame
             ELSE [frames[u][d] EXCEPT !.attached = FALSE]) \in FrameType
      BY <1>5, <2>1
    <3> QED BY <3>1, <3>2
  <2>3. depth' \in [Slots -> 0..MaxDepth]
    BY <1>1, <1>3, ToolAssumption DEF ToolInv, TypeOK, Levels
  <2>4. ASSUME NEW u \in Slots, NEW d \in Levels
        PROVE  /\ d < depth'[u] => frames'[u][d].pc = "work"
               /\ d = depth'[u] => frames'[u][d].pc # "none"
               /\ d > depth'[u] => frames'[u][d] = NoFrame
    <3>1. LevelAt(u, d)
      BY LevelFacts DEF ToolInv
    <3>2. depth'[u] = IF u = s THEN depth[s] - 1 ELSE depth[u]
      BY <1>3 DEF ToolInv, TypeOK
    <3>3. [NoFrame EXCEPT !.attached = FALSE] = NoFrame
      BY Detached, NoFrameType DEF NoFrame, Frame
    <3>4. frames'[u][d].pc = IF u = s /\ d = depth[s] THEN "none" ELSE frames[u][d].pc
      BY <1>6, NoFrameType
    <3>5. d > depth[u] => frames'[u][d] = NoFrame
      BY <1>5, <3>1, <3>3 DEF LevelAt
    <3>6. u = s /\ d = depth[s] => frames'[u][d] = NoFrame
      BY <1>5
    <3>7. CASE u = s
      <4>1. d < depth'[u] => d < depth[u]
        BY <3>1, <3>2, <3>7 DEF LevelAt
      <4>2. d = depth'[u] => d < depth[u]
        BY <3>1, <3>2, <3>7 DEF LevelAt
      <4>3. d > depth'[u] => d = depth[u] \/ d > depth[u]
        BY <3>1, <3>2, <3>7 DEF LevelAt
      <4>4. d < depth[u] => frames'[u][d].pc = "work"
        BY <3>1, <3>4, <3>7 DEF LevelAt
      <4> QED BY <3>5, <3>6, <3>7, <4>1, <4>2, <4>3, <4>4
    <3>8. CASE u # s
      BY <3>1, <3>2, <3>4, <3>5, <3>8 DEF LevelAt
    <3> QED BY <3>7, <3>8
  <2> QED BY <1>3, <2>2, <2>3, <2>4 DEF ToolInv, TypeOK
<1>8. ~overlapped => tools = Tools
  <2>1. Top(s).todo = {} /\ tools \subseteq Tools
    BY DEF ToolInv, TypeOK, Clear
  <2>2. ~overlapped => disabled \ Top(s).todo \subseteq tools
    BY <1>1 DEF ToolInv, Remembered, Top
  <2>3. ~overlapped => tools \cup disabled = Tools
    BY DEF ToolInv, NothingLost
  <2> QED BY <2>1, <2>2, <2>3
<1>9. \A u \in Slots : Filtered(u)' => Filtered(u)
  BY <1>6, NoFrameType DEF Filtered
<1>10. FilterHolds' /\ OwnRegistry'
  BY <1>6, NoFrameType DEF FilterHolds, OwnRegistry
<1>11. FilterProgress'
  BY <1>6, NoFrameType DEF ToolInv, FilterProgress
<1>12. OneFilteredSlot'
  BY <1>3, <1>9 DEF ToolInv, OneFilteredSlot
<1>13. Remembered'
  BY <1>3, <1>6, NoFrameType DEF Remembered
<1>14. NothingLost'
  BY <1>3, <1>8 DEF NothingLost
<1> QED BY <1>7, <1>10, <1>11, <1>12, <1>13, <1>14 DEF ToolInv

LEMMA CallKeeps ==
    ASSUME ToolInv, NEW s \in Slots, NEW k \in Filters, Call(s, k) PROVE ToolInv'
<1> DEFINE l == depth[s] + 1
           f == Frame(k, "called", {}, {}, FALSE, FALSE)
<1>1. /\ depth[s] \in Nat /\ l \in Levels
      /\ depth' = [depth EXCEPT ![s] = l] /\ depth' \in [Slots -> 0..MaxDepth]
  BY ToolAssumption DEF ToolInv, TypeOK, Call, Levels
<1>2. /\ f \in FrameType /\ f.filter = k /\ f.pc = "called" /\ ~f.alone
  BY DEF Frame, FrameType
<1>3. frames' = [frames EXCEPT ![s] = [frames[s] EXCEPT ![l] = f]]
  BY DEF Call
<1> HIDE DEF f
<1>4. frames' \in [Slots -> [Levels -> FrameType]]
  BY <1>1, <1>2, <1>3 DEF ToolInv, TypeOK
<1>5. \A u \in Slots, d \in Levels :
        frames'[u][d] = IF u = s /\ d = l THEN f ELSE frames[u][d]
  BY <1>1, <1>3 DEF ToolInv, TypeOK
<1>6. \A u \in Slots, d \in Levels :
        \/ frames'[u][d] = frames[u][d]
        \/ u = s /\ d = l /\ frames[u][d] = NoFrame /\ frames'[u][d] = f
  <2>1. frames[s][l] = NoFrame
    BY <1>1, LevelFacts DEF ToolInv, LevelAt
  <2> QED BY <1>5, <2>1
<1>7. UNCHANGED <<tools, disabled, overlapped>>
  BY DEF Call
<1>8. TypeOK'
  <2>1. ASSUME NEW u \in Slots, NEW d \in Levels
        PROVE  /\ d < depth'[u] => frames'[u][d].pc = "work"
               /\ d = depth'[u] => frames'[u][d].pc # "none"
               /\ d > depth'[u] => frames'[u][d] = NoFrame
    <3>1. LevelAt(u, d)
      BY LevelFacts DEF ToolInv
    <3>2. depth'[u] = IF u = s THEN l ELSE depth[u]
      BY <1>1 DEF ToolInv, TypeOK
    <3>3. CASE u # s
      BY <1>5, <3>1, <3>2, <3>3 DEF LevelAt
    <3>4. CASE u = s /\ d = l
      BY <1>1, <1>2, <1>5, <3>2, <3>4
    <3>5. CASE u = s /\ d > l
      BY <1>1, <1>5, <3>1, <3>2, <3>5 DEF LevelAt
    <3>6. CASE u = s /\ d < l
      <4>1. d = depth[s] => At(s, "work")
        BY <1>1, <3>1, <3>6, ToolAssumption DEF Call, Levels
      <4>2. frames[u][d].pc = "work"
        BY <1>1, <3>1, <3>6, <4>1 DEF LevelAt, At, Top
      <4> QED BY <1>1, <1>5, <3>1, <3>2, <3>6, <4>2 DEF LevelAt
    <3> QED BY <1>1, <3>1, <3>3, <3>4, <3>5, <3>6 DEF LevelAt
  <2>2. calls' \in 0..MaxCalls
    BY ToolAssumption DEF Call, ToolInv, TypeOK
  <2> QED BY <1>1, <1>4, <1>7, <2>1, <2>2 DEF ToolInv, TypeOK
<1>9. \A u \in Slots : Filtered(u)' <=> Filtered(u)
  BY <1>2, <1>6, NoFrameType DEF Filtered
<1>10. FilterHolds' /\ FilterProgress' /\ OneFilteredSlot' /\ Remembered' /\ NothingLost'
  BY <1>2, <1>6, <1>7, <1>9
  DEF ToolInv, FilterHolds, FilterProgress, OneFilteredSlot, Remembered, NothingLost
<1>11. OwnRegistry'
  <2> SUFFICES ASSUME NEW u \in Slots, NEW d \in Levels, frames'[u][d].alone
               PROVE  /\ \A v \in Slots \ {u} : ~Filtered(v)'
                      /\ \A e \in Levels : e > d =>
                            frames'[u][e].filter = "none" \/ frames'[u][e].pc = "called"
                      /\ d < depth'[u] => frames'[u][d].filter # "readonly"
    BY DEF OwnRegistry
  <2>1. frames'[u][d] = frames[u][d]
    BY <1>2, <1>6
  <2>2. \A e \in Levels : e > d =>
          frames'[u][e].filter = "none" \/ frames'[u][e].pc = "called"
    BY <1>2, <1>6, <2>1 DEF ToolInv, OwnRegistry
  <2>3. CASE d < depth[u]
    BY <1>9, <2>1, <2>2, <2>3 DEF ToolInv, OwnRegistry
  <2>4. CASE d >= depth[u] /\ d < depth'[u]
    <3>1. u = s /\ d = depth[s]
      <4>1. depth'[u] = IF u = s THEN depth[s] + 1 ELSE depth[u]
        BY <1>1 DEF ToolInv, TypeOK
      <4>2. d \in Nat /\ depth[u] \in Nat
        BY LevelFacts DEF ToolInv, LevelAt
      <4> QED BY <2>4, <4>1, <4>2
    <3>2. At(s, "work")
      BY <1>1, <3>1, ToolAssumption DEF Call, Levels
    <3>3. frames[u][d].filter = "readonly" => tools \subseteq ReadOnlyTools
      BY <2>1, <3>1, <3>2 DEF ToolInv, FilterHolds, At, Top, Allowed
    <3>4. frames[u][d].filter # "readonly"
      BY <3>3, ToolAssumption DEF Call
    <3> QED BY <1>9, <2>1, <2>2, <3>4 DEF ToolInv, OwnRegistry
  <2>5. CASE ~(d < depth'[u])
    BY <1>9, <2>1, <2>2, <2>5 DEF ToolInv, OwnRegistry
  <2>6. d < depth[u] \/ d >= depth[u]
    BY LevelFacts DEF ToolInv, LevelAt
  <2> QED BY <2>3, <2>4, <2>5, <2>6
<1> QED BY <1>8, <1>10, <1>11 DEF ToolInv

LEMMA BeginKeeps ==
    ASSUME ToolInv, NEW s \in Slots, Begin(s) PROVE ToolInv'
<1> DEFINE k == Top(s).filter
           shared == \E u \in Slots \ {s} : Filtered(u)
           f == [Top(s) EXCEPT !.pc = IF k = "none" THEN "work" ELSE "list",
                               !.alone = ~shared]
<1>1. depth[s] \in Levels /\ Top(s) \in FrameType /\ Top(s).pc = "called"
  BY TopFrame DEF Begin, ToolInv
<1>2. /\ f \in FrameType /\ f.filter = k /\ f.alone = ~shared
      /\ f.pc = IF k = "none" THEN "work" ELSE "list"
  BY <1>1 DEF FrameType
<1>3. \A u \in Slots, d \in Levels :
        frames'[u][d] = IF u = s /\ d = depth[s] THEN f ELSE Disturbed(u, d, s, k)
  BY DEF Begin
<1>4. /\ tools' = tools \cup Registers /\ UNCHANGED <<disabled, depth, calls>>
      /\ overlapped' = (overlapped \/ (k # "none" /\ shared))
  BY DEF Begin
<1>5. \A u \in Slots, d \in Levels :
        /\ Disturbed(u, d, s, k) \in FrameType
        /\ Disturbed(u, d, s, k).filter = frames[u][d].filter
        /\ Disturbed(u, d, s, k).pc = frames[u][d].pc
        /\ Disturbed(u, d, s, k).todo = frames[u][d].todo
        /\ Disturbed(u, d, s, k).names = frames[u][d].names
        /\ Disturbed(u, d, s, k).alone <=> frames[u][d].alone /\ u = s /\ k = "none"
  <2> TAKE u \in Slots, d \in Levels
  <2>1. frames[u][d] \in FrameType
    BY DEF ToolInv, TypeOK
  <2> QED BY <2>1 DEF Disturbed, FrameType
<1>6. \A u \in Slots, d \in Levels : frames'[u][d] \in FrameType
  <2> HIDE DEF f
  <2> TAKE u \in Slots, d \in Levels
  <2>1. CASE u = s /\ d = depth[s]
    BY <1>2, <1>3, <2>1
  <2>2. CASE ~(u = s /\ d = depth[s])
    BY <1>3, <1>5, <2>2
  <2> QED BY <2>1, <2>2
<1>7. frames' \in [Slots -> [Levels -> FrameType]]
  <2>1. frames' = [u \in Slots |-> [d \in Levels |->
                     IF u = s /\ d = depth[s] THEN f ELSE Disturbed(u, d, s, k)]]
    BY DEF Begin
  <2>2. \A u \in Slots, d \in Levels :
          (IF u = s /\ d = depth[s] THEN f ELSE Disturbed(u, d, s, k)) \in FrameType
    BY <1>2, <1>5
  <2> HIDE DEF f
  <2> QED BY <2>1, <2>2
<1> HIDE DEF f
<1>8. \A u \in Slots, d \in Levels :
        \/ u = s /\ d = depth[s] /\ frames'[u][d] = f
        \/ /\ u # s \/ d # depth[s]
           /\ frames'[u][d].filter = frames[u][d].filter
           /\ frames'[u][d].pc = frames[u][d].pc
           /\ frames'[u][d].todo = frames[u][d].todo
           /\ frames'[u][d].names = frames[u][d].names
           /\ frames'[u][d].alone <=> frames[u][d].alone /\ u = s /\ k = "none"
  <2> TAKE u \in Slots, d \in Levels
  <2>1. CASE u = s /\ d = depth[s]
    BY <1>3, <2>1
  <2>2. CASE u # s \/ d # depth[s]
    BY <1>3, <1>5, <2>2
  <2> QED BY <2>1, <2>2
(* A subagent that still has the registry to itself works below the new    *)
(* unfiltered one, or is the new one.                                      *)
<1>9. ASSUME NEW u \in Slots, NEW d \in Levels, frames'[u][d].alone,
             ~(u = s /\ d = depth[s])
      PROVE  /\ u = s /\ k = "none" /\ d < depth[s] /\ frames[u][d].alone
             /\ frames[u][d].pc = "work" /\ frames[u][d].filter # "readonly"
  <2>1. LevelAt(u, d)
    BY LevelFacts DEF ToolInv
  <2>2. u = s /\ k = "none" /\ frames[u][d].alone
    BY <1>8, <1>9
  <2>3. frames[u][d] # NoFrame
    BY <2>2, NoFrameType
  <2>4. d < depth[s]
    BY <1>9, <2>1, <2>2, <2>3 DEF LevelAt
  <2> QED BY <2>1, <2>2, <2>4 DEF LevelAt, ToolInv, OwnRegistry
<1>10. TypeOK'
  <2>1. ASSUME NEW u \in Slots, NEW d \in Levels
        PROVE  /\ d < depth[u] => frames'[u][d].pc = "work"
               /\ d = depth[u] => frames'[u][d].pc # "none"
               /\ d > depth[u] => frames'[u][d] = NoFrame
    <3>1. LevelAt(u, d)
      BY LevelFacts DEF ToolInv
    <3>2. CASE u = s /\ d = depth[s]
      BY <1>2, <1>8, <3>1, <3>2 DEF LevelAt
    <3>3. CASE ~(u = s /\ d = depth[s])
      <4>1. frames'[u][d] = Disturbed(u, d, s, k)
        BY <1>3, <3>3
      <4>2. d > depth[u] => Disturbed(u, d, s, k) = NoFrame
        BY <3>1, NoFrameType DEF LevelAt, Disturbed, FrameType, NoFrame, Frame
      <4> QED BY <1>8, <3>1, <3>3, <4>1, <4>2 DEF LevelAt
    <3> QED BY <3>2, <3>3
  <2>2. tools' \subseteq Tools /\ overlapped' \in BOOLEAN
    BY <1>4, ToolAssumption DEF ToolInv, TypeOK
  <2> QED BY <1>4, <1>7, <2>1, <2>2 DEF ToolInv, TypeOK
<1>11. \A u \in Slots : u # s \/ k = "none" => (Filtered(u)' <=> Filtered(u))
  BY <1>1, <1>2, <1>8 DEF Filtered, Top
<1>12. FilterHolds'
  <2> SUFFICES ASSUME NEW u \in Slots, NEW d \in Levels, frames'[u][d].pc = "work",
                      frames'[u][d].alone
               PROVE  tools' \subseteq Allowed[frames'[u][d].filter]
    BY DEF FilterHolds
  <2>1. CASE u = s /\ d = depth[s]
    <3>1. frames'[u][d].filter = "none"
      BY <1>2, <1>8, <2>1
    <3> QED BY <1>10, <3>1 DEF TypeOK, Allowed
  <2>2. CASE ~(u = s /\ d = depth[s])
    <3>1. /\ frames[u][d].pc = "work" /\ frames[u][d].alone
          /\ frames[u][d].filter # "readonly"
          /\ frames'[u][d].filter = frames[u][d].filter
      BY <1>8, <1>9, <2>2
    <3>2. tools \subseteq Allowed[frames[u][d].filter]
      BY <3>1 DEF ToolInv, FilterHolds
    <3>3. frames[u][d].filter \in {"full", "none"}
      BY <3>1 DEF ToolInv, TypeOK, FrameType, Filters
    <3>4. Registers \subseteq Allowed[frames[u][d].filter]
      BY <3>3, ToolAssumption DEF Allowed
    <3> QED BY <1>4, <3>1, <3>2, <3>4
  <2> QED BY <2>1, <2>2
<1>13. FilterProgress'
  <2> SUFFICES ASSUME NEW u \in Slots, NEW d \in Levels
               PROVE  /\ frames'[u][d].pc \in {"list", "stash", "drop", "restore"}
                           => frames'[u][d].filter # "none"
                      /\ frames'[u][d].alone => frames'[u][d].pc \notin {"stash", "drop"}
    BY DEF FilterProgress
  <2>1. CASE u = s /\ d = depth[s]
    BY <1>2, <1>8, <2>1
  <2>2. CASE ~(u = s /\ d = depth[s])
    BY <1>8, <1>9, <2>2 DEF ToolInv, FilterProgress
  <2> QED BY <2>1, <2>2
<1>14. OwnRegistry'
  <2> SUFFICES ASSUME NEW u \in Slots, NEW d \in Levels, frames'[u][d].alone
               PROVE  /\ \A v \in Slots \ {u} : ~Filtered(v)'
                      /\ \A e \in Levels : e > d =>
                            frames'[u][e].filter = "none" \/ frames'[u][e].pc = "called"
                      /\ d < depth'[u] => frames'[u][d].filter # "readonly"
    BY DEF OwnRegistry
  <2>1. CASE u = s /\ d = depth[s]
    <3>1. ~shared
      BY <1>2, <1>8, <2>1
    <3>2. \A v \in Slots \ {u} : ~Filtered(v)'
      BY <1>11, <2>1, <3>1
    <3>3. \A e \in Levels : e > d => frames'[u][e] = NoFrame
      BY <1>4, <1>10, <2>1 DEF TypeOK
    <3>4. ~(d < depth'[u])
      BY <1>4, <2>1, LevelFacts DEF ToolInv, LevelAt
    <3> QED BY <3>2, <3>3, <3>4, NoFrameType
  <2>2. CASE ~(u = s /\ d = depth[s])
    <3>1. /\ u = s /\ k = "none" /\ frames[u][d].alone
          /\ frames[u][d].filter # "readonly"
      BY <1>9, <2>2
    <3>2. \A v \in Slots \ {u} : ~Filtered(v)'
      BY <1>11, <3>1 DEF ToolInv, OwnRegistry
    <3>3. \A e \in Levels : e > d =>
            frames'[u][e].filter = "none" \/ frames'[u][e].pc = "called"
      BY <1>2, <1>8, <3>1 DEF ToolInv, OwnRegistry
    <3> QED BY <1>8, <2>2, <3>1, <3>2, <3>3
  <2> QED BY <2>1, <2>2
<1>15. OneFilteredSlot'
  <2> SUFFICES ASSUME ~overlapped', NEW u \in Slots, NEW v \in Slots,
                      Filtered(u)', Filtered(v)'
               PROVE  u = v
    BY DEF OneFilteredSlot
  <2>1. CASE k = "none"
    BY <1>4, <1>11, <2>1 DEF ToolInv, OneFilteredSlot
  <2>2. CASE k # "none"
    BY <1>4, <1>11, <2>2
  <2> QED BY <2>1, <2>2
<1>16. Remembered'
  <2>1. \A u \in Slots, d \in Levels : frames'[u][d].pc \in {"drop", "restore"} =>
          /\ frames'[u][d].pc = frames[u][d].pc
          /\ frames'[u][d].todo = frames[u][d].todo
          /\ frames'[u][d].names = frames[u][d].names
    BY <1>2, <1>8
  <2> SUFFICES ASSUME ~overlapped', NEW u \in Slots, NEW d \in Levels
               PROVE  /\ frames'[u][d].pc = "drop" => frames'[u][d].names \subseteq disabled'
                      /\ frames'[u][d].pc = "restore" =>
                            /\ frames'[u][d].names = disabled'
                            /\ disabled' \ frames'[u][d].todo \subseteq tools'
    BY DEF Remembered
  <2>2. /\ frames[u][d].pc = "drop" => frames[u][d].names \subseteq disabled
        /\ frames[u][d].pc = "restore" =>
              /\ frames[u][d].names = disabled
              /\ disabled \ frames[u][d].todo \subseteq tools
    BY <1>4 DEF ToolInv, Remembered
  <2>3. CASE frames'[u][d].pc = "drop"
    BY <1>4, <2>1, <2>2, <2>3
  <2>4. CASE frames'[u][d].pc = "restore"
    BY <1>4, <2>1, <2>2, <2>4
  <2> QED BY <2>3, <2>4
<1>17. NothingLost'
  <2>1. ~overlapped' => tools' \cup disabled' = Tools
    BY <1>4, ToolAssumption DEF ToolInv, NothingLost
  <2>2. ASSUME ~overlapped', \A u \in Slots : ~Filtered(u)'
        PROVE  tools' = Tools
    <3>1. k = "none"
      <4> SUFFICES ASSUME k # "none" PROVE FALSE
        OBVIOUS
      <4>1. frames'[s][depth[s]] = f /\ f.filter # "none" /\ f.pc # "called"
        BY <1>1, <1>2, <1>8
      <4> QED BY <1>1, <2>2, <4>1 DEF Filtered
    <3> QED BY <1>4, <1>11, <2>2, <3>1, ToolAssumption DEF ToolInv, NothingLost
  <2> QED BY <2>1, <2>2 DEF NothingLost
<1> QED BY <1>10, <1>12, <1>13, <1>14, <1>15, <1>16, <1>17 DEF ToolInv

------------------------------------------------------------------------------
LEMMA NextKeeps == ToolInv /\ [Next]_vars => ToolInv'
<1> SUFFICES ASSUME ToolInv, [Next]_vars PROVE ToolInv'
  OBVIOUS
<1>1. CASE UNCHANGED vars
  BY <1>1 DEF vars, ToolInv, TypeOK, FilterHolds, NothingLost, FilterProgress,
     OwnRegistry, OneFilteredSlot, Remembered, Filtered
<1>2. ASSUME NEW s \in Slots, NEW k \in Filters, Call(s, k) PROVE ToolInv'
  BY <1>2, CallKeeps
<1>3. ASSUME NEW s \in Slots, Thread(s) PROVE ToolInv'
  BY <1>3, BeginKeeps, ListKeeps, StashKeeps, DropKeeps, FinishKeeps, PutBackKeeps,
     BreakKeeps, ClearKeeps DEF Thread
<1> QED BY <1>1, <1>2, <1>3 DEF Next

LEMMA ToolInvHolds == Spec => []ToolInv
BY InitToolInv, NextKeeps, PTL DEF Spec

(* Types hold for any tools, slots and depth (TaskTool.run).               *)
THEOREM Typed == Spec => []TypeOK
<1>1. ToolInv => TypeOK
  BY DEF ToolInv
<1> QED BY <1>1, ToolInvHolds, PTL

(* A subagent that has the registry to itself never has a tool its filter  *)
(* forbids (_apply_tool_filter).                                           *)
THEOREM FilterKept == Spec => []FilterHolds
<1>1. ToolInv => FilterHolds
  BY DEF ToolInv
<1> QED BY <1>1, ToolInvHolds, PTL

(* Nesting loses no tool, to any depth (_restore_tools).                   *)
THEOREM ToolsKept == Spec => []NothingLost
<1>1. ToolInv => NothingLost
  BY DEF ToolInv
<1> QED BY <1>1, ToolInvHolds, PTL
==============================================================================
