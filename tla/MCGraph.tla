------------------------------- MODULE MCGraph -------------------------------
(***************************************************************************)
(* The position graph, the rules of chess and the contracts on small       *)
(* instances in one run: version stores (VersionStore, also where          *)
(* addresses collide), differences and conflicts (GraphChanges), node and  *)
(* edge tables (GraphTables), opening contexts (OpeningContext), games     *)
(* (ChessGame) and the contract lints (ContractGate).  `part` says which   *)
(* of them a behaviour is about; the variables of the others stay as they  *)
(* began.  The properties of VersionStore, GraphTables and GraphChanges    *)
(* are checked as they stand there.                                        *)
(***************************************************************************)
EXTENDS ContractGate, VersionStore, GraphTables, GraphChanges, TLC

CONSTANTS
    Parts,       \* the parts a run explores
    None,
    s1, s2, s3,  \* version stores
    e4, e5,      \* moves
    old, new     \* editions of the opening registry

VARIABLES
    part,
    contexts, named,                                \* OpeningContext
    pos, rights, target, half, full, plies, start   \* ChessGame

AllContracts == Contracts
AllEngines == Engines
AnyStore == Permutations({s1, s2, s3})

-----------------------------------------------------------------------------
\* Any contract edited once, and then any one engine imported; and three
\* engines imported while two contracts are edited and put back: a runtime and
\* the engines that import it or read its contract.
OneImport ==
    /\ DOMAIN loaded = {} \/ linted # NONE
    /\ Next
    /\ edits' <= 1

SomeImports ==
    /\ Next
    /\ \A d \in drift' : d.contract \in {"variant", "transposition_node"}
    /\ DOMAIN loaded' \subseteq
        {Variant, <<"graph", "provenance">>, <<"graph", "position_digest">>,
         <<"graph", "transposition_node">>}

-----------------------------------------------------------------------------
\* Three version stores; addresses that tell contents apart, and addresses that
\* are the same for all contents below the same parents.
Content(parents, digest) == <<parents, digest>>
Collision(parents, digest) == <<parents, "any">>

Colliding == INSTANCE VersionStore WITH Address <- Collision

\* Three positions, of which two have one digest.
Collides(identity) == IF identity = 3 THEN "b" ELSE "a"

\* Two editions of the registry, paths of four moves.
Opening(moves, code, name) == [moves |-> moves, code |-> code, name |-> name]
Editions == [t \in {old, new} |->
    {Opening(<<e4>>, "B00", "king's pawn"),
     IF t = new THEN Opening(<<e4, e5>>, "C20", "open game")
                ELSE Opening(<<e4, e5>>, "C20", "king's pawn game")}
    \union (IF t = new THEN {Opening(<<e4, e5, e4>>, "C23", "bishop's")} ELSE {})]
Contexts ==
    INSTANCE OpeningContext WITH
        Tables <- {old, new}, Moves <- {e4, e5}, MaxMoves <- 4,
        Registry <- Editions, MaxInserts <- 3, inserts <- named

-----------------------------------------------------------------------------
\* Games of two moves from four positions.
Men(side, kind, squares) == [s \in squares |-> <<side, kind>>]
Position(b, turn, castling) ==
    [board |-> b, turn |-> turn, castling |-> castling, ep |-> None]

Castle == Position(
    Men("w", "k", {<<4, 0>>}) @@ Men("w", "r", {<<0, 0>>, <<7, 0>>}) @@
    Men("b", "k", {<<4, 7>>}) @@ Men("b", "r", {<<0, 7>>, <<7, 7>>}) @@
    Men("b", "b", {<<5, 4>>}), "b", {"w", "b"} \X {"K", "Q"})
\* A pawn may take in passing after d2-d4 or f2-f4; after f2-f4 both pawns
\* leave the line of rook and king.
Pins == Position(
    Men("w", "k", {<<4, 0>>}) @@ Men("w", "p", {<<3, 1>>, <<5, 1>>}) @@
    Men("w", "r", {<<0, 3>>}) @@
    Men("b", "k", {<<7, 3>>}) @@ Men("b", "p", {<<4, 3>>}), "w", {})
Promote == Position(
    Men("w", "k", {<<6, 0>>}) @@ Men("w", "p", {<<0, 6>>}) @@
    Men("b", "k", {<<6, 6>>}) @@ Men("b", "n", {<<1, 7>>}) @@
    Men("b", "p", {<<7, 1>>}), "w", {})
Knights == Position(
    Men("w", "k", {<<0, 0>>}) @@ Men("w", "n", {<<3, 3>>, <<3, 5>>, <<5, 3>>}) @@
    Men("w", "p", {<<2, 1>>}) @@
    Men("b", "k", {<<7, 7>>}) @@ Men("b", "q", {<<0, 7>>}) @@
    Men("b", "p", {<<2, 2>>}), "w", {})

Game ==
    INSTANCE ChessGame WITH
        Starts <- {Castle, Pins, Promote, Knights}, MaxPlies <- 2

ASSUME GateConstants
ASSUME StoreConstants
ASSUME ChangesConstants
ASSUME TablesConstants
ASSUME Contexts!ContextConstants

-----------------------------------------------------------------------------
contextVars == <<contexts, named>>
gameVars == <<pos, rights, target, half, full, plies, start>>
graphVars == <<part, vars, storeVars, changesVars, tableVars, contextVars,
               gameVars>>

\* Differences begin with any state, games with any of their positions.
GraphInit ==
    /\ part \in Parts
    /\ Init
    /\ StoreInit
    /\ ChangesInit /\ (part # "changes" => base = [n \in {} |-> "d"])
    /\ TablesInit
    /\ Contexts!ContextInit
    /\ Game!GameInit /\ (part # "games" => start = Pins)

GraphNext ==
    /\ UNCHANGED part
    /\ \/ /\ \/ part = "contracts" /\ OneImport
             \/ part = "engines" /\ SomeImports
          /\ UNCHANGED <<storeVars, changesVars, tableVars, contextVars,
                         gameVars>>
       \/ /\ \/ part = "versions" /\ StoreNext
             \/ part = "collision" /\ Colliding!StoreNext
          /\ UNCHANGED <<vars, changesVars, tableVars, contextVars,
                         gameVars>>
       \/ /\ part = "changes"
          /\ ChangesNext
          /\ UNCHANGED <<vars, storeVars, tableVars, contextVars,
                         gameVars>>
       \/ /\ part = "tables"
          /\ TablesNext
          /\ UNCHANGED <<vars, storeVars, changesVars, contextVars,
                         gameVars>>
       \/ /\ part = "contexts"
          /\ Contexts!ContextNext
          /\ UNCHANGED <<vars, storeVars, changesVars, tableVars,
                         gameVars>>
       \/ /\ part = "games"
          /\ Game!Play
          /\ UNCHANGED <<vars, storeVars, changesVars, tableVars,
                         contextVars>>

GraphSpec == GraphInit /\ [][GraphNext]_graphVars

-----------------------------------------------------------------------------
\* ChessGame: the modules that each know a part of the rules agree on every
\* position of a game, and every game they allow can be recorded and read back.
\* OpeningContext: a game's path is named by its own registry, at the move that
\* names it.
RulesAgree ==
    /\ part = "games" =>
         /\ Game!AttacksAgree
         /\ Game!MovesAgree
         /\ Game!CastlingAgrees
         /\ Game!RightsFollow
         /\ Game!EpAgrees
         /\ Game!GameRecordable
         /\ Game!TokensUnique
    /\ part = "contexts" => Contexts!OwnRegistry /\ Contexts!NamesAtTheMove
=============================================================================
