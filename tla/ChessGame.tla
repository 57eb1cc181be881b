------------------------------ MODULE ChessGame ------------------------------
(***************************************************************************)
(* A game played on the import's board, with every move reported to the    *)
(* runtimes: the castling runtime keeps rights, the en-passant runtime its *)
(* target, the turn runtime its clocks.  Beside it, the two validators of  *)
(* positions: graph/fen.py, and tools/variant_contract_lint.py behind      *)
(* tools/variant_runtime.py.                                               *)
(***************************************************************************)
EXTENDS ChessMoves

CONSTANTS
    Starts,    \* positions a game is taken up at
    MaxPlies   \* bound: moves from there

VARIABLES
    pos,     \* the import's board
    rights,  \* the castling runtime's rights
    target,  \* the en-passant runtime's target
    half, full,  \* the turn runtime's counters
    plies, start

gameVars == <<pos, rights, target, half, full, plies, start>>

GameInit ==
    /\ start \in Starts /\ pos = start /\ rights = start.castling /\ target = start.ep
    /\ half = 0 /\ full = 1 /\ plies = 0

\* The events of a move, for the castling runtime.
Events(m) ==
    LET side == pos.turn
        kind == pos.board[m.from][2]
        moved == IF kind = "k" THEN KingMoved(rights, side)
                 ELSE IF kind = "r" THEN RookGone(rights, m.from) ELSE rights
    IN  IF Holds(pos.board, m.to, Opp(side), {"r"}) THEN RookGone(moved, m.to) ELSE moved

\* apply_move: a pawn move or a capture resets the clock.
Turn(m) ==
    /\ half' = IF pos.board[m.from][2] = "p" \/ Holds(pos.board, m.to, Opp(pos.turn), Kinds)
               THEN 0 ELSE half + 1
    /\ full' = full + IF pos.turn = "b" THEN 1 ELSE 0

Play == \E m \in LegalMoves(pos) :
    /\ plies < MaxPlies /\ plies' = plies + 1
    /\ pos' = Apply(pos, m)
    /\ rights' = Events(m)
    /\ target' = IF m.ep THEN None ELSE TargetAfter(pos.board, m, pos.turn)
    /\ Turn(m)
    /\ UNCHANGED start

GameSpec == GameInit /\ [][Play]_gameVars
-----------------------------------------------------------------------------
Of(b, side) == {s \in DOMAIN b : b[s][1] = side}
Count(b, side, kind) == Cardinality({s \in Of(b, side) : b[s][2] = kind})
Excess(b, side) ==
    Further(0, Count(b, side, "q") - 1) + Further(0, Count(b, side, "r") - 2)
    + Further(0, Count(b, side, "b") - 2) + Further(0, Count(b, side, "n") - 2)
HomeOccupied(b, right) ==
    /\ Holds(b, <<4, HomeRank(right[1])>>, right[1], {"k"})
    /\ Holds(b, Corner(right), right[1], {"r"})
\* What both validators ask of a board.
Possible(b, side) ==
    /\ \A own \in {"w", "b"} :
          /\ Count(b, own, "k") = 1 /\ Count(b, own, "p") <= 8 /\ Cardinality(Of(b, own)) <= 16
    /\ \A s \in DOMAIN b : b[s][2] = "p" => s[2] \in 1 .. 6
    /\ KingOf(b, "w") \notin {Away(KingOf(b, "b"), d, 1) : d \in KingDeltas}
    /\ ~ Attacked(b, KingOf(b, Opp(side)), side)
\* A square passed by a double step of the side that is not to move.
Stepped(b, side, ep) ==
    /\ ep[2] = EpRank(side)
    /\ Holds(b, Passed([to |-> ep], side), Opp(side), {"p"})
    /\ ep \notin DOMAIN b /\ Away(ep, <<0, Forward(side)>>, 1) \notin DOMAIN b
\* graph/position_digest.py _ep_identity, and _ep_capture_legal.
Capturable(b, side, ep) == \E from \in Beside(ep, side) :
    /\ Holds(b, from, side, {"p"})
    /\ Safe(EpBoard(b, side, from, ep), side)

\* parse_fen of graph/fen.py, for a placement in its grammar.
FenAccepts(p, clock) ==
    /\ Possible(p.board, p.turn)
    /\ \A own \in {"w", "b"} : Excess(p.board, own) <= 8 - Count(p.board, own, "p")
    /\ \A right \in p.castling : HomeOccupied(p.board, right)
    /\ p.ep # None => Stepped(p.board, p.turn, p.ep) /\ clock = 0
\* _check_fen.
VariantAccepts(p) ==
    /\ Possible(p.board, p.turn)
    /\ \A right \in p.castling : HomeOccupied(p.board, right)
    /\ p.ep # None => Stepped(p.board, p.turn, p.ep) /\ Capturable(p.board, p.turn, p.ep)
EpIdentity(p) == IF p.ep # None /\ Capturable(p.board, p.turn, p.ep) THEN p.ep ELSE None
\* make_record of graph/node.py.
Recordable(p, clock) ==
    /\ VariantAccepts(p) /\ (p.ep # None => clock = 0)
    /\ FenAccepts(p, 0)
-----------------------------------------------------------------------------
\* ingest/pgn.py _match_san: what a token must agree with.
Token(p, m, file, rank) ==
    [castle |-> m.castle, piece |-> p.board[m.from][2], dest |-> m.to, promotion |-> m.promotion,
     capture |-> m.ep \/ m.to \in DOMAIN p.board,
     file |-> IF file THEN m.from[1] ELSE None, rank |-> IF rank THEN m.from[2] ELSE None]
Matches(legal, p, token) == {m \in legal :
    IF token.castle # None THEN m.castle = token.castle
    ELSE /\ p.board[m.from][2] = token.piece /\ m.to = token.dest /\ m.castle = None
         /\ m.promotion = token.promotion /\ (m.ep \/ m.to \in DOMAIN p.board) = token.capture
         /\ token.file \in {None, m.from[1]} /\ token.rank \in {None, m.from[2]}}
\* A pawn's token has its file, on a capture, and never its rank.
Written(p, m) ==
    LET pawn == p.board[m.from][2] = "p"
        takes == m.ep \/ m.to \in DOMAIN p.board
    IN  {Token(p, m, file, rank) : file \in {takes \/ ~ pawn}, rank \in {~ pawn}}
-----------------------------------------------------------------------------
Plain(moves) == {m \in moves : m.castle = None /\ ~ m.ep}

\* The four definitions of an attacked square agree on every square.
AttacksAgree == \A side \in {"w", "b"} : \A s \in Squares :
    /\ Attacked(pos.board, s, side) <=> s \in AttackedSquares(pos.board, side)
    /\ Attacked(pos.board, s, side) <=> EpAttacked(pos.board, s, side)

\* The legal-moves runtime generates the import's moves but castling and en
\* passant; of the moves a piece could make, and of those onto other men, it
\* accepts exactly these.
MovesAgree ==
    LET moves == RuntimeMoves(pos.board, pos.turn)
    IN  /\ moves = Plain(LegalMoves(pos))
        /\ \A m \in UNION {PseudoMoves(pos, s) : s \in Own(pos)}
                   \union {Move(s, t) : s \in DOMAIN pos.board, t \in DOMAIN pos.board} :
              m.castle = None /\ ~ m.ep =>
                  (Refusal(pos.board, pos.turn, m) = None <=> m \in moves)

\* The castling runtime, told what the legal-moves runtime says is attacked,
\* allows exactly the castlings the import does.
CastlingAgrees == \A wing \in {"K", "Q"} :
    CastlingRefusal(rights, pos.board, AttackedSquares(pos.board, Opp(pos.turn)), pos.turn, wing) = None
    <=> \E m \in LegalMoves(pos) : m.castle = wing

\* Both keep the same rights through kings that move, rooks that leave, are
\* captured at home, and captured by a rook from its own home.
RightsFollow == rights = pos.castling

\* The en-passant runtime keeps the import's target, allows exactly its
\* captures, and both names of the identity value are the same.
EpAgrees ==
    /\ target = pos.ep
    /\ \A from \in Of(pos.board, pos.turn) : target # None =>
          (EpRefusal(target, pos.board, pos.turn, from, target) = None
           <=> \E m \in LegalMoves(pos) : m.ep /\ m.from = from)
    /\ IdentityValue(target, pos.board, pos.turn) = EpIdentity(pos)

\* Every position of a game is a position a FEN may say, with the clock the
\* turn runtime has, and once its target is reduced to its identity it can be
\* recorded as a node.
GameRecordable ==
    /\ FenAccepts(pos, half)
    /\ Recordable([pos EXCEPT !.ep = EpIdentity(pos)], half)

\* Every legal move can be written so that it is read as that move.
TokensUnique ==
    LET legal == LegalMoves(pos)
    IN  \A m \in legal : \E token \in Written(pos, m) : Matches(legal, pos, token) = {m}

\* Every target a game stores is one the variant runtime reads.
StoredTargetRead == VariantAccepts(pos)

\* A game that is over by its moves has none left.
TerminalTrue ==
    TerminalStatus(pos.board, pos.turn) \in {"checkmate", "stalemate"} => LegalMoves(pos) = {}
=============================================================================
