---------------------------- MODULE AgentHistory ------------------------------
(***************************************************************************)
(* The conversation an agent of recon_core keeps: messages appended, the   *)
(* token count that goes with them, compression when the count passes the  *)
(* threshold, automatic and manual saving, and loading in a later process. *)
(* A message is its role, the round of the conversation it belongs to and  *)
(* its size in tokens; a file holds what a session file restores.          *)
(***************************************************************************)
EXTENDS Integers, FiniteSets, Sequences, SequencesExt

CONSTANTS
    Sizes,         (* sizes of messages in tokens                            *)
    Threshold,     (* context_window times compression_threshold             *)
    MinRetain,     (* min_retain_rounds                                      *)
    SaveInterval,  (* auto_save_interval                                     *)
    MaxRuns        (* bound: runs, and so rounds of conversation             *)

ASSUME HistoryAssumption ==
    /\ Sizes \subseteq Nat \ {0} /\ 1 \in Sizes
    /\ Threshold \in Nat /\ MinRetain \in Nat \ {0}
    /\ SaveInterval \in Nat \ {0} /\ MaxRuns \in Nat

VARIABLES
    history,    (* HistoryManager._history                                   *)
    tokens,     (* _history_token_count                                      *)
    autoFile,   (* session-auto.json                                         *)
    namedFile,  (* the last session saved under another name                 *)
    asked,      (* history: rounds of this conversation, summarised ones too *)
    cut,        (* history: rounds that stopped between question and answer  *)
    exact       (* history: tokens has followed every change of history      *)

historyVars == <<history, tokens, autoFile, namedFile, asked, cut, exact>>

Message(role, round, size) == [role |-> role, round |-> round, size |-> size]

Messages == {Message(role, round, size) :
                role \in {"user", "assistant", "summary"},
                round \in 0..MaxRuns, size \in Sizes}

NoFile == [exists |-> FALSE, history |-> <<>>, asked |-> {}]

File == [exists |-> TRUE, history |-> history, asked |-> asked]

(* find_round_boundaries, of which estimate_rounds counts as many.         *)
Boundaries(h) == {i \in DOMAIN h : h[i].role = "user"}

Rounds(h) == Cardinality(Boundaries(h))

(* boundaries[-MinRetain]                                                  *)
KeepFrom(h) ==
    CHOOSE i \in Boundaries(h) :
        Cardinality({j \in Boundaries(h) : j >= i}) = MinRetain

(* count_messages                                                          *)
Tokens(h) ==
    LET upTo[n \in 0..Len(h)] == IF n = 0 THEN 0 ELSE upTo[n - 1] + h[n].size
    IN  upTo[Len(h)]

(* HistoryManager.compress.  Mutants: one round too few is kept; the tail  *)
(* is cut by messages, not at a round.                                     *)
Compress_KeepsLess(h) ==
    IF Rounds(h) <= MinRetain THEN h
    ELSE <<Message("summary", 0, 1)>> \o SubSeq(h, KeepFrom(h) + 1, Len(h))

Compress(h) ==
    IF Rounds(h) <= MinRetain THEN h
    ELSE <<Message("summary", 0, 1)>> \o SubSeq(h, KeepFrom(h), Len(h))

(* Agent._should_compress.  Mutant: the window itself is the limit.        *)
ShouldCompress_Late(count) == count > 2 * Threshold

ShouldCompress(count) == count > Threshold

(* Agent._auto_save, which fails silently.                                 *)
AutoSave(h, rounds) ==
    \/ /\ Len(h) % SaveInterval = 0
       /\ autoFile' = [exists |-> TRUE, history |-> h, asked |-> rounds]
    \/ UNCHANGED autoFile

(* Agent.add_message                                                       *)
AddMessage(m) ==
    LET longer == Append(history, m)
        full   == ShouldCompress(tokens + m.size)
        kept   == IF full THEN Compress(longer) ELSE longer
        rounds == asked \cup {m.round}
    IN  /\ history' = kept
        /\ tokens' = IF full THEN Tokens(kept) ELSE tokens + m.size
        /\ asked' = rounds
        /\ exact' = (exact \/ full)
        /\ AutoSave(kept, rounds)
        /\ UNCHANGED <<namedFile, cut>>

(* Agent.save_session; the replacement of the file is atomic.              *)
SaveSession ==
    /\ namedFile' = File
    /\ UNCHANGED <<history, tokens, autoFile, asked, cut, exact>>

(* The round a file breaks off in, if it does.                             *)
BrokenOff(h) == IF h # <<>> /\ Last(h).role = "user" THEN {Last(h).round} ELSE {}

(* Agent.load_session: everything but the token count.                     *)
LoadSession(file) ==
    /\ file.exists
    /\ history' = file.history /\ asked' = file.asked
    /\ exact' = FALSE /\ cut' = cut \cup BrokenOff(file.history)
    /\ UNCHANGED <<tokens, autoFile, namedFile>>

(* Agent.clear_history                                                     *)
ClearHistory ==
    /\ history' = <<>> /\ tokens' = 0 /\ asked' = {} /\ exact' = TRUE
    /\ UNCHANGED <<autoFile, namedFile, cut>>

(* A new process: a new agent object, the files of the old one.            *)
NewAgent ==
    /\ history' = <<>> /\ tokens' = 0 /\ asked' = {} /\ exact' = TRUE
    /\ UNCHANGED <<autoFile, namedFile>>

HistoryInit ==
    /\ history = <<>> /\ tokens = 0
    /\ autoFile = NoFile /\ namedFile = NoFile
    /\ asked = {} /\ cut = {} /\ exact = TRUE

------------------------------------------------------------------------------
FileTypeOK(file) ==
    /\ file.exists \in BOOLEAN
    /\ file.history \in Seq(Messages)
    /\ file.asked \subseteq 1..MaxRuns

HistoryTypeOK ==
    /\ history \in Seq(Messages) /\ tokens \in Nat
    /\ FileTypeOK(autoFile) /\ FileTypeOK(namedFile)
    /\ asked \subseteq 1..MaxRuns /\ cut \subseteq 1..MaxRuns
    /\ exact \in BOOLEAN

Summarised(h) == \E i \in DOMAIN h : h[i].role = "summary"
==============================================================================
