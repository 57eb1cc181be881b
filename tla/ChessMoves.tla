------------------------------ MODULE ChessMoves ------------------------------
(***************************************************************************)
(* The chess board and the moves on it as the code knows them.  "Attacked" *)
(* has four definitions: ingest/pgn.py (and, spelled alike, graph/fen.py   *)
(* and tools/variant_contract_lint.py) looks outwards from the square,     *)
(* tools/legal_moves_runtime.py collects what every piece attacks, and     *)
(* graph/en_passant.py compares the coordinates of piece and square.       *)
(* Moves are generated and applied by the import's board and by the        *)
(* runtimes that own a part each: tools/legal_moves_runtime.py every move  *)
(* but castling and en passant, tools/castling_runtime.py,                 *)
(* graph/en_passant.py and tools/turn_runtime.py.                          *)
(*                                                                         *)
(* A board is a function from its occupied squares to <<side, kind>>, a    *)
(* square is <<file, rank>>, both from zero.  A position is [board, turn,  *)
(* castling, ep]: castling is a set of pairs <<side, wing>>, ep a square   *)
(* or None.                                                                *)
(***************************************************************************)
EXTENDS Integers, Sequences, FiniteSets

CONSTANT None

Squares == (0 .. 7) \X (0 .. 7)
Kinds == {"p", "n", "b", "r", "q", "k"}
Opp(side) == IF side = "w" THEN "b" ELSE "w"
Forward(side) == IF side = "w" THEN 1 ELSE -1
HomeRank(side) == IF side = "w" THEN 0 ELSE 7
LastRank(side) == IF side = "w" THEN 7 ELSE 0
Abs(n) == IF n < 0 THEN -n ELSE n
Further(m, n) == IF m < n THEN n ELSE m
Sign(n) == IF n > 0 THEN 1 ELSE IF n < 0 THEN -1 ELSE 0

Straight == {<<1, 0>>, <<-1, 0>>, <<0, 1>>, <<0, -1>>}
Diagonal == {<<1, 1>>, <<1, -1>>, <<-1, 1>>, <<-1, -1>>}
KingDeltas == Straight \union Diagonal
KnightDeltas == {<<1, 2>>, <<2, 1>>, <<-1, 2>>, <<-2, 1>>,
                 <<1, -2>>, <<2, -1>>, <<-1, -2>>, <<-2, -1>>}
Directions(kind) ==
    CASE kind = "r" -> Straight [] kind = "b" -> Diagonal [] kind = "q" -> KingDeltas

Away(s, d, n) == <<s[1] + n * d[1], s[2] + n * d[2]>>
Holds(b, s, side, kinds) == s \in DOMAIN b /\ b[s][1] = side /\ b[s][2] \in kinds
KingOf(b, side) == CHOOSE s \in DOMAIN b : b[s] = <<side, "k">>

\* The squares from s in one direction, up to and with the first piece.
Ray(b, s, d) ==
    {Away(s, d, n) : n \in {n \in 1 .. 7 :
        Away(s, d, n) \in Squares /\ \A m \in 1 .. n - 1 : Away(s, d, m) \notin DOMAIN b}}

\* Board.attacked: an attacking pawn stands behind its target.
Attacked(b, t, by) ==
    \/ \E df \in {-1, 1} : Holds(b, <<t[1] + df, t[2] - Forward(by)>>, by, {"p"})
    \/ \E d \in KnightDeltas : Holds(b, Away(t, d, 1), by, {"n"})
    \/ \E d \in Straight : \E s \in Ray(b, t, d) : Holds(b, s, by, {"r", "q"})
    \/ \E d \in Diagonal : \E s \in Ray(b, t, d) : Holds(b, s, by, {"b", "q"})
    \/ \E d \in KingDeltas : Holds(b, Away(t, d, 1), by, {"k"})

\* _attacked_squares: own pieces' squares too, as long as they are first in line.
AttackedFrom(b, s) ==
    LET side == b[s][1]
        kind == b[s][2]
    IN  Squares \intersect
        CASE kind = "n" -> {Away(s, d, 1) : d \in KnightDeltas}
          [] kind = "k" -> {Away(s, d, 1) : d \in KingDeltas}
          [] kind = "p" -> {<<s[1] + df, s[2] + Forward(side)>> : df \in {-1, 1}}
          [] OTHER      -> UNION {Ray(b, s, d) : d \in Directions(kind)}
AttackedSquares(b, side) == UNION {AttackedFrom(b, s) : s \in {s \in DOMAIN b : b[s][1] = side}}

\* graph/en_passant.py _clear: nothing between two squares in line.
Clear(b, s, t) ==
    LET d == <<Sign(t[1] - s[1]), Sign(t[2] - s[2])>>
        n == Further(Abs(t[1] - s[1]), Abs(t[2] - s[2]))
    IN  \A m \in 1 .. n - 1 : Away(s, d, m) \notin DOMAIN b
\* graph/en_passant.py _attacked.
EpAttacked(b, t, by) == \E s \in DOMAIN b :
    LET df == s[1] - t[1]
        dr == s[2] - t[2]
        kind == b[s][2]
    IN  /\ b[s][1] = by
        /\ \/ kind = "p" /\ dr = -Forward(by) /\ Abs(df) = 1
           \/ kind = "n" /\ {Abs(df), Abs(dr)} = {1, 2}
           \/ kind = "k" /\ Further(Abs(df), Abs(dr)) = 1
           \/ /\ \/ kind \in {"r", "q"} /\ (df = 0 \/ dr = 0)
                 \/ kind \in {"b", "q"} /\ Abs(df) = Abs(dr)
              /\ s # t /\ Clear(b, t, s)

-----------------------------------------------------------------------------
Move(from, to) == [from |-> from, to |-> to, promotion |-> None, castle |-> None, ep |-> FALSE]
Promotions == {"q", "r", "b", "n"}
RookFile(wing) == IF wing = "K" THEN 7 ELSE 0
Corner(right) == <<RookFile(right[2]), HomeRank(right[1])>>
Rights == {"w", "b"} \X {"K", "Q"}

\* The captured pawn's square, the two squares of a castling rook.
Passed(m, side) == <<m.to[1], m.to[2] - Forward(side)>>
RookTo(wing) == IF wing = "K" THEN 5 ELSE 3

BoardAfter(b, m, side) ==
    LET rook == <<RookFile(m.castle), m.from[2]>>
        gone == {m.from} \union (IF m.ep THEN {Passed(m, side)} ELSE {})
                         \union (IF m.castle = None THEN {} ELSE {rook})
        rookTo == <<RookTo(m.castle), m.from[2]>>
    IN  [s \in (DOMAIN b \ gone) \union {m.to} \union (IF m.castle = None THEN {} ELSE {rookTo}) |->
            IF s = m.to THEN <<side, IF m.promotion = None THEN b[m.from][2] ELSE m.promotion>>
            ELSE IF m.castle # None /\ s = rookTo THEN b[rook] ELSE b[s]]

\* Board.apply.
Apply(p, m) ==
    LET kind == p.board[m.from][2]
    IN  [board |-> BoardAfter(p.board, m, p.turn), turn |-> Opp(p.turn),
         castling |-> {right \in p.castling : Corner(right) \notin {m.from, m.to}
                           /\ ~ (kind = "k" /\ right[1] = p.turn)},
         ep |-> IF kind = "p" /\ Abs(m.to[2] - m.from[2]) = 2 THEN Passed(m, p.turn) ELSE None]

\* A pawn's move to the last rank is a move for each piece it may become.
Promoted(ms, side) ==
    {m \in ms : m.to[2] # LastRank(side)} \union
    {[m EXCEPT !.promotion = kind] : m \in {m \in ms : m.to[2] = LastRank(side)}, kind \in Promotions}

PawnMoves(p, s) ==
    LET b == p.board
        one == Away(s, <<0, Forward(p.turn)>>, 1)
        two == Away(s, <<0, Forward(p.turn)>>, 2)
        sides == Squares \intersect {Away(one, <<df, 0>>, 1) : df \in {-1, 1}}
    IN  Promoted(
          {Move(s, t) : t \in {one} \intersect (Squares \ DOMAIN b)}
          \union {Move(s, t) : t \in {two} \intersect
                     (IF s[2] = HomeRank(p.turn) + Forward(p.turn) /\ one \notin DOMAIN b
                      THEN Squares \ DOMAIN b ELSE {})}
          \union {[Move(s, t) EXCEPT !.ep = t = p.ep] : t \in
                     {t \in sides : Holds(b, t, Opp(p.turn), Kinds) \/ t = p.ep}}, p.turn)

Castles(p, s) ==
    LET home == HomeRank(p.turn)
        free(files) == \A f \in files : <<f, home>> \notin DOMAIN p.board
        safe(files) == \A f \in files : ~ Attacked(p.board, <<f, home>>, Opp(p.turn))
    IN  IF s # <<4, home>> THEN {}
        ELSE {[Move(s, <<6, home>>) EXCEPT !.castle = "K"] :
                 right \in p.castling \intersect {<<p.turn, "K">>} \intersect
                     (IF free({5, 6}) /\ safe({4, 5, 6}) THEN Rights ELSE {})}
             \union {[Move(s, <<2, home>>) EXCEPT !.castle = "Q"] :
                 right \in p.castling \intersect {<<p.turn, "Q">>} \intersect
                     (IF free({1, 2, 3}) /\ safe({2, 3, 4}) THEN Rights ELSE {})}

Steps(b, s, deltas, side) ==
    {t \in Squares \intersect {Away(s, d, 1) : d \in deltas} : ~ Holds(b, t, side, Kinds)}
Slides(b, s, kind, side) ==
    {t \in UNION {Ray(b, s, d) : d \in Directions(kind)} : ~ Holds(b, t, side, Kinds)}

PseudoMoves(p, s) ==
    LET b == p.board
        kind == b[s][2]
    IN  CASE kind = "p" -> PawnMoves(p, s)
          [] kind = "n" -> {Move(s, t) : t \in Steps(b, s, KnightDeltas, p.turn)}
          [] kind = "k" -> {Move(s, t) : t \in Steps(b, s, KingDeltas, p.turn)} \union Castles(p, s)
          [] OTHER      -> {Move(s, t) : t \in Slides(b, s, kind, p.turn)}
Safe(b, side) == ~ Attacked(b, KingOf(b, side), Opp(side))
Own(p) == {s \in DOMAIN p.board : p.board[s][1] = p.turn}
\* Board.legal_moves.
LegalMoves(p) ==
    {m \in UNION {PseudoMoves(p, s) : s \in Own(p)} : Safe(Apply(p, m).board, p.turn)}
-----------------------------------------------------------------------------
(* tools/legal_moves_runtime.py: a state is a board and a side.            *)

\* _pseudo_targets: the other king is never a target.
Targets(b, s) ==
    LET side == b[s][1]
        kind == b[s][2]
        ahead(n) == Away(s, <<0, Forward(side)>>, n)
        free(n) == ahead(n) \in Squares \ DOMAIN b
        reached == CASE kind = "n" -> Steps(b, s, KnightDeltas, side)
                     [] kind = "k" -> Steps(b, s, KingDeltas, side)
                     [] kind = "p" -> {ahead(n) : n \in {n \in 1 .. 2 : free(1) /\ free(n)
                                          /\ (n = 2 => s[2] = HomeRank(side) + Forward(side))}}
                                      \union {t \in AttackedFrom(b, s) : Holds(b, t, Opp(side), Kinds)}
                     [] OTHER -> Slides(b, s, kind, side)
    IN  {t \in reached : ~ Holds(b, t, Opp(side), {"k"})}
KingSafe(b, m, side) ==
    LET after == BoardAfter(b, m, side)
    IN  KingOf(after, side) \notin AttackedSquares(after, Opp(side))
\* legal_moves.
RuntimeMoves(b, side) == UNION
    {LET moves == {Move(s, t) : t \in Targets(b, s)}
     IN  {m \in IF b[s][2] = "p" THEN Promoted(moves, side) ELSE moves : KingSafe(b, m, side)} :
     s \in {s \in DOMAIN b : b[s][1] = side}}
\* terminal_status.
TerminalStatus(b, side) ==
    LET check == KingOf(b, side) \in AttackedSquares(b, Opp(side))
        none == RuntimeMoves(b, side) = {}
    IN  CASE check /\ none -> "checkmate" [] ~ check /\ none -> "stalemate"
          [] check /\ ~ none -> "check" [] OTHER -> "none"
\* apply: what is wrong with a move, in the order of the checks, or None.
Refusal(b, side, m) ==
    CASE m.from = m.to -> "malformed_move"
      [] m.from \notin DOMAIN b -> "no_piece"
      [] b[m.from][1] # side -> "not_players_piece"
      [] m.to \notin Targets(b, m.from) -> "unreachable_target"
      [] m.promotion = None /\ b[m.from][2] = "p" /\ m.to[2] = LastRank(side) -> "promotion_missing"
      [] m.promotion # None /\ ~ (b[m.from][2] = "p" /\ m.to[2] = LastRank(side)) -> "promotion_forbidden"
      [] ~ KingSafe(b, m, side) -> "leaves_king_attacked"
      [] OTHER -> None
-----------------------------------------------------------------------------
(* tools/castling_runtime.py, which is told what is attacked.              *)

CastlingRefusal(rights, b, attacked, side, wing) ==
    LET home == HomeRank(side)
        between == IF wing = "K" THEN {5, 6} ELSE {1, 2, 3}
        path == IF wing = "K" THEN {4, 5, 6} ELSE {4, 3, 2}
    IN  CASE <<side, wing>> \notin rights -> "king_unmoved_required"
          [] ~ (Holds(b, <<4, home>>, side, {"k"}) /\ Holds(b, Corner(<<side, wing>>), side, {"r"}))
                -> "rights_inconsistent"
          [] \E f \in between : <<f, home>> \in DOMAIN b -> "path_blocked"
          [] \E f \in path : <<f, home>> \in attacked -> "through_check"
          [] OTHER -> None
\* The rights an event costs: a king move, a rook leaving a corner, a rook
\* captured on one.
KingMoved(rights, side) == {right \in rights : right[1] # side}
RookGone(rights, corner) == {right \in rights : Corner(right) # corner}
-----------------------------------------------------------------------------
(* graph/en_passant.py: a state is a target, a board and a side.           *)

EpRank(side) == IF side = "w" THEN 5 ELSE 2
EpBoard(b, side, from, target) ==
    BoardAfter(b, [Move(from, target) EXCEPT !.ep = TRUE], side)
BadEpRefusal(target, b, side, from, to) ==
    CASE target = None -> "capture_precondition"
      [] target \in DOMAIN b \/ target[2] # EpRank(side)
            \/ ~ Holds(b, Passed([to |-> target], side), Opp(side), {"p"}) -> "target_inconsistent"
      [] to # target \/ from[2] # EpRank(side) - Forward(side)
            \/ Abs(from[1] - target[1]) # 1 \/ ~ Holds(b, from, side, {"p"}) -> "capture_precondition"
      [] EpAttacked(b, KingOf(b, side), Opp(side)) -> "pinned_capture"
      [] OTHER -> None
\* _capture: judged on the board after it.
EpRefusal(target, b, side, from, to) ==
    CASE target = None -> "capture_precondition"
      [] target \in DOMAIN b \/ target[2] # EpRank(side)
            \/ ~ Holds(b, Passed([to |-> target], side), Opp(side), {"p"}) -> "target_inconsistent"
      [] to # target \/ from[2] # EpRank(side) - Forward(side)
            \/ Abs(from[1] - target[1]) # 1 \/ ~ Holds(b, from, side, {"p"}) -> "capture_precondition"
      [] EpAttacked(EpBoard(b, side, from, target), KingOf(b, side), Opp(side)) -> "pinned_capture"
      [] OTHER -> None
\* apply: the target after a move that is not an en-passant capture.
TargetAfter(b, m, side) ==
    LET start == HomeRank(side) + Forward(side)
    IN  IF b[m.from][2] = "p" /\ m.from[1] = m.to[1] /\ m.from[2] = start
           /\ m.to[2] = start + 2 * Forward(side)
        THEN <<m.to[1], start + Forward(side)>> ELSE None
Beside(target, side) ==
    {<<target[1] + df, target[2] - Forward(side)>> : df \in {-1, 1}} \intersect Squares
\* identity_value.
IdentityValue(target, b, side) ==
    IF target # None /\ \E from \in Beside(target, side) : EpRefusal(target, b, side, from, target) = None
    THEN target ELSE None
=============================================================================
