------------------------------ MODULE Experience ------------------------------
(***************************************************************************)
(* play_episode and ReplayBuffer (src/src/matmul_inspector/                *)
(* tensor_game_experience.py): a TensorGame is played by one search per    *)
(* decision, each from the residual the last one left, and the episode and *)
(* its decisions go to a buffer of bounded capacity.                       *)
(*                                                                         *)
(* The id of an episode names its target and seed, and the id of a         *)
(* decision is a digest of all of it but the return: so a decision is its  *)
(* own id, and the buffer maps it to the return.                           *)
(***************************************************************************)
EXTENDS SampledSearch

CONSTANTS
  Targets,   \* tensors to decompose
  MaxMoves,  \* max_moves of an episode
  Seeds,     \* one episode is played per target and seed; more are refused
  Plays,     \* bound on the episodes TLC explores
  Capacity,  \* capacity_episodes
  NoReturn   \* the return None

ASSUME ExperienceConstants ==
  /\ Targets \subseteq Tensors
  /\ {MaxMoves, Capacity, Plays} \subseteq Nat \ {0}
  /\ NoReturn \notin Int

VARIABLES
  game,      \* the episode being played
  phase,     \* where play_episode and its caller are
  episodes,  \* ReplayBuffer.episodes
  decisions, \* ReplayBuffer.decisions: the return target, by decision
  played     \* episodes played

buffer == <<episodes, decisions>>
vars == <<searchVars, game, phase, episodes, decisions, played>>

Outcomes == {"success", "truncated", "interrupted"}

New(t, s) == [target |-> t, seed |-> s, residual |-> t, history |-> << >>, outcome |-> "none"]
Id(ep) == [target |-> ep.target, seed |-> ep.seed]
Depth == Len(game.history)
Left == MaxMoves - Depth

(* TensorGame: neither holds of a game no step was made in, so that a zero *)
(* target is not won.                                                      *)
Terminated == Depth > 0 /\ game.residual = Zero
Truncated == Depth >= MaxMoves /\ ~Terminated

Init ==
  /\ \E t \in Targets, s \in Seeds : game = New(t, s)
  /\ SearchInit(Zero, MaxMoves)
  /\ phase = "loop"
  /\ episodes = << >> /\ decisions = [d \in {} |-> 0] /\ played = 1
-----------------------------------------------------------------------------
(* The while loop of play_episode.  Between searches the search variables   *)
(* hold one of the zero tensor, which stands for none.                     *)
Forget == Search(Zero, MaxMoves)

End(outcome) ==
  /\ game' = [game EXCEPT !.outcome = outcome] /\ phase' = "add"
  /\ Forget /\ UNCHANGED <<buffer, played>>

GameOver ==
  /\ phase = "loop" /\ (Terminated \/ Truncated)
  /\ End(IF Terminated THEN "success" ELSE "truncated")

(* The episode's wall time is up, or its stop condition is met. *)
Interrupt == phase = "loop" /\ ~Terminated /\ ~Truncated /\ End("interrupted")

(* Each decision has a search of its own, from the residual there is. *)
NewSearch ==
  /\ phase = "loop" /\ ~Terminated /\ ~Truncated
  /\ Search(game.residual, Left) /\ UNCHANGED game
  /\ phase' = "search"
  /\ UNCHANGED <<buffer, played>>

Searching == phase = "search" /\ SearchStep /\ UNCHANGED <<game, phase, buffer, played>>

NoSupport == phase = "search" /\ search = "done" /\ Support(Root) = {} /\ End("interrupted")

Decision(a) ==
  [episode |-> Id(game), depth |-> Depth, residual |-> game.residual, action |-> a,
   next |-> Subtract(game.residual, a)]

(* search_policy and select_behavior_action pick an action of the root's   *)
(* support; probabilities, and hence visits, only choose which.            *)
Decide(a) ==
  /\ phase = "search" /\ search = "done" /\ a \in Support(Root)
  /\ game' = [game EXCEPT !.residual = Subtract(@, a), !.history = Append(@, Decision(a))]
  /\ phase' = "loop"
  /\ Forget /\ UNCHANGED <<buffer, played>>
-----------------------------------------------------------------------------
(* The return of the i-th decision: the end of the game, less a move each.  *)
Base == IF game.outcome = "success" THEN MaxMoves ELSE -(MaxMoves + 1)

(* Mutant of Return: a decision's own move is not counted. *)
ReturnAfter(i) == IF game.outcome = "interrupted" THEN NoReturn ELSE Base - (Depth - i)

Return(i) == IF game.outcome = "interrupted" THEN NoReturn ELSE Base - (Depth - i + 1)
RowsOf(ep) == Range(ep.history)

(* ReplayBuffer.add: what is over capacity loses its oldest episode. *)
Oldest == IF Len(episodes) < Capacity THEN {} ELSE {Head(episodes)}
(* Mutant of OldestRows: an episode is dropped without its decisions. *)
NoRows == {}

OldestRows == UNION {RowsOf(ep) : ep \in Oldest}
Duplicate == \E ep \in Range(episodes) : Id(ep) = Id(game)

Add ==
  /\ phase = "add" /\ ~Duplicate
  /\ episodes' = IF Oldest = {} THEN Append(episodes, game) ELSE Tail(Append(episodes, game))
  /\ decisions' = [d \in (DOMAIN decisions \cup RowsOf(game)) \ OldestRows |->
                     IF d \in RowsOf(game) THEN Return(d.depth + 1) ELSE decisions[d]]
  /\ phase' = "next"
  /\ UNCHANGED <<searchVars, game, played>>

RefuseDuplicate ==
  /\ phase = "add" /\ Duplicate
  /\ phase' = "next"
  /\ UNCHANGED <<searchVars, game, buffer, played>>

NextEpisode(t, s) ==
  /\ phase = "next" /\ played < Plays
  /\ played' = played + 1
  /\ game' = New(t, s) /\ phase' = "loop"
  /\ UNCHANGED <<searchVars, buffer>>

Next ==
  \/ GameOver \/ Interrupt \/ NewSearch \/ Searching \/ NoSupport \/ Add \/ RefuseDuplicate
  \/ \E a \in Actions : Decide(a)
  \/ \E t \in Targets, s \in Seeds : NextEpisode(t, s)

Spec == Init /\ [][Next]_vars
FairSpec == Spec /\ WF_vars(Next)
-----------------------------------------------------------------------------
(* Every variable keeps its type.                                          *)
TypeOK ==
  /\ SearchTypeOK
  /\ game.target \in Targets /\ game.seed \in Seeds /\ game.residual \in Tensors
  /\ game.outcome \in Outcomes \cup {"none"}
  /\ phase \in {"loop", "search", "add", "next"}
  /\ Range(decisions) \subseteq Int \cup {NoReturn}
  /\ played \in 1 .. Plays

(* replay_episode: every decision is there, its state is the one the       *)
(* actions before it lead to, no action follows the end of the game, and   *)
(* the final residual is what was recorded.                                *)
Played(ep, i) == Subtract(ep.target, Sum([j \in 1 .. i |-> ep.history[j].action]))
Replays(ep) ==
  LET n == Len(ep.history) IN
  /\ \A i \in 1 .. n : LET d == ep.history[i] IN
       /\ d \in DOMAIN decisions /\ d.episode = Id(ep)
       /\ d.residual = Played(ep, i - 1) /\ d.next = Played(ep, i)
       /\ i < n => d.next # Zero
  /\ ep.residual = Played(ep, n) /\ n <= MaxMoves
  /\ ep.outcome = "success" <=> n > 0 /\ ep.residual = Zero

(* However episodes were won, cut off, interrupted, refused and evicted,   *)
(* every episode in the buffer passes replay_episode, and the buffer has   *)
(* no decision of any other: what is saved can be loaded.                  *)
RowsAreOwned ==
  /\ Len(episodes) <= Capacity
  /\ \A i, j \in DOMAIN episodes : i # j => Id(episodes[i]) # Id(episodes[j])
  /\ DOMAIN decisions = UNION {RowsOf(ep) : ep \in Range(episodes)}
BufferReplays == RowsAreOwned /\ \A ep \in Range(episodes) : Replays(ep)

(* A return says how the decision's residual fared: a nonnegative one,     *)
(* MaxMoves less n, only when the next n actions of its episode do sum up  *)
(* to it, a negative one only when its episode ran out of moves.           *)
ReturnsAreEarned ==
  \A ep \in Range(episodes) : \A i \in DOMAIN ep.history :
    LET r == decisions[ep.history[i]]
        rest == [j \in 1 .. Len(ep.history) - i + 1 |-> ep.history[i + j - 1].action]
    IN  /\ r = NoReturn <=> Len(ep.history) < MaxMoves /\ ep.residual # Zero
        /\ r # NoReturn /\ Sum(rest) = ep.history[i].residual => r = MaxMoves - Len(rest)
        /\ r # NoReturn /\ Sum(rest) # ep.history[i].residual => r < -MaxMoves

(* Every episode comes to its end and to the buffer, or is refused.        *)
EpisodeEnds == phase = "loop" ~> phase = "next"
===============================================================================
