------------------------------- MODULE MCDump -------------------------------
(* Small games for the dump: two modules that share a class, virtual classes
   with one and with two bases, hashes with classes that belong elsewhere,
   functions that look alike, are shared or are stubs, and fields that share
   their place.                                                               *)
EXTENDS LiveReads

Field(n, o, t, k, s) == [name |-> n, offset |-> o, type |-> t, kind |-> k, size |-> s]
Info(n, m, s, fs, bs) ==
  [name |-> n, module |-> m, size |-> s, fields |-> fs, statics |-> << >>, bases |-> bs,
   align |-> 4, metadata |-> << >>]

\* The field in the gap before m_hp is a bitfield in some games.
Infos(shared, gap) ==
  [c_Ent  |-> Info("C_Ent", "client", 16, <<Field("m_body", 8, "Body", "ptr", 8)>>, << >>),
   c_Pawn |-> Info("C_Pawn", "client", 48,
                <<Field("m_flags", 20, gap, gap, 4), Field("m_hp", 24, "int", "value", 4),
                  Field("m_alias", 24, "Team", "value", 4), Field("m_owner", 28, "C_Ent", "handle", 4),
                  Field("m_parts", 32, "Body", "vector", 16)>>,
                <<"c_Ent", "c_Body">>),
   c_Body |-> Info("Body", "client", 16, <<Field("m_node", 4, "C_Ent", "ptr", 8)>>, << >>),
   s_Ent  |-> Info("CEnt", "server", 32,
                <<Field("m_id", 20, "int", "value", 4), Field("m_pair", 24, "int[2]", "array", 8)>>, <<"s_Body">>),
   s_Body |-> Info("Body", shared, 20, <<Field("m_node", 8, "CEnt", "ptr", 8)>>, << >>)]

Bucket(S) == [uncommitted |-> << >>, committed |-> SetToSeq(S)]
Hash(bs, free) == [allocated |-> TRUE, buckets |-> [i \in DOMAIN bs |-> Bucket(bs[i])], free |-> free]
Scope(m, bs, free) ==
  [name |-> m, classes |-> Hash(bs, free), enums |-> <<Hash(<<{"e_Team"}, {"e_Life"}>>, << >>)>>]

\* C_Pawn inherits both functions of C_Ent and adds one.
ClientDecl == [C_Ent  |-> [bases |-> << >>, functions |-> <<1, 2>>, further |-> << >>],
               Body   |-> [bases |-> << >>, functions |-> <<5>>, further |-> << >>],
               C_Pawn |-> [bases |-> <<"C_Ent", "Body">>, functions |-> <<1, 2, 3>>, further |-> <<4>>]]
ServerDecl == [CEnt |-> [bases |-> <<"Body">>, functions |-> <<6, 3, 7>>, further |-> << >>],
               Body |-> [bases |-> << >>, functions |-> <<6>>, further |-> << >>]]

Orderings(S) == SetToSeqs(S)
Rotations == {<<1, 2, 3, 4>>, <<2, 3, 4, 1>>, <<3, 4, 1, 2>>, <<4, 3, 2, 1>>}
Images == {Compiled(ClientDecl, cols, vts) : cols \in Orderings(ColsOf(ClientDecl)), vts \in Rotations}
ServerImage ==
  LET cols == SetToSeq(ColsOf(ServerDecl)) IN Compiled(ServerDecl, cols, [i \in DOMAIN cols |-> i])

-----------------------------------------------------------------------------
\* Instructions by their parts, and the bytes of a row of them: as many as are
\* read, behind a return the padding of the linker.
Ins(prefixes, rex, op, modrm, disp, imm) ==
  [prefixes |-> prefixes, rex |-> rex, op |-> op, modrm |-> modrm, sib |-> << >>, disp |-> disp, imm |-> imm]
RM(m, r, b) == <<[mod |-> m, reg |-> r, rm |-> b]>>
W == <<8>>
Ret  == Ins(<< >>, << >>, <<\hC3>>, << >>, << >>, << >>)
LoadAt(r, b, disp)     == Ins(<< >>, W, <<\h8B>>, RM(1, r, b), <<disp>>, << >>)
StoreAt(r, b, disp)  == Ins(<< >>, << >>, <<\h89>>, RM(1, r, b), <<disp>>, << >>)
LoadFar(r, b, disp)  == Ins(<< >>, << >>, <<\h8B>>, RM(2, r, b), <<disp, 0, 0, 0>>, << >>)
CopyReg(to, from)    == Ins(<< >>, W, <<\h8B>>, RM(3, to, from), << >>, << >>)
LoadStatic(r)        == Ins(<< >>, W, <<\h8B>>, RM(0, r, 5), <<16, 0, 0, 0>>, << >>)
Address(r, b, disp)  == Ins(<< >>, W, <<\h8D>>, RM(1, r, b), <<disp>>, << >>)
WidenAt(r, b, disp)  == Ins(<< >>, << >>, <<\h0F, \hB6>>, RM(1, r, b), <<disp>>, << >>)
CompareAt(r, b, disp) == Ins(<< >>, << >>, <<\h39>>, RM(1, r, b), <<disp>>, << >>)
FloatAt(b, disp)     == Ins(<<\hF3>>, << >>, <<\h0F, \h10>>, RM(1, 0, b), <<disp>>, << >>)
AddAt(b, disp)       == Ins(<< >>, << >>, <<\h81>>, RM(1, 0, b), <<disp>>, <<1, 0, 0, 0>>)
Test(a, b)           == Ins(<< >>, << >>, <<\h85>>, RM(3, a, b), << >>, << >>)
JumpIfZero           == Ins(<< >>, << >>, <<\h74>>, << >>, << >>, <<4>>)
CallTo               == Ins(<< >>, << >>, <<\hE8>>, << >>, << >>, <<16, 0, 0, 0>>)

BytesRead == 16
Padding == Ins(<< >>, << >>, <<\hCC>>, << >>, << >>, [i \in 1..BytesRead |-> \hCC])
Body(raw, code) ==
  LET padded == Append(code, Padding)
  IN  [raw |-> raw, code |-> padded,
       bytes |-> SubSeq(FlattenSeq([i \in DOMAIN padded |-> Encoding(padded[i])]), 1, BytesRead)]

\* Of the cells 8 is followed by an address, <<7>> is a stub, and so is the sixth
\* function, which the seventh looks like once the addresses are masked.
\* RBX (3) keeps this over a call; in the seventh function the bytes end within the
\* last load, and the sixth does what the analysis does not follow.
Functions ==
  <<Body(<<2, 3, 4, 5>>, <<AddAt(1, 12), LoadAt(0, 1, 8), Ret>>),
    Body(<<2, 3, 4, 6>>, <<CopyReg(3, 1), CallTo, LoadAt(0, 1, 12), StoreAt(0, 3, 24), Ret>>),
    Body(<<2, 8, 9, 6>>, <<Address(2, 1, 20), WidenAt(1, 1, 24), CompareAt(0, 1, 8), Ret>>),
    Body(<<2, 8, 7, 6>>, <<FloatAt(1, 28), StoreAt(2, 1, 8), LoadFar(0, 1, 16), LoadFar(0, 1, 24)>>),
    Body(<<7, 0, 0, 0>>, <<Ret>>),
    Body(<<3, 8, 9, 5>>, <<LoadStatic(1), LoadAt(0, 1, 16), Ret>>),
    Body(<<3, 8, 4, 5>>, <<Test(1, 1), JumpIfZero, AddAt(1, 12), LoadFar(0, 1, 40), Ret>>)>>

Word(t, m, c) == [to |-> t, class |-> <<m, c>>]
ClientData == <<Word("object", "client", "C_Pawn"), Word("other", "client", "C_Pawn"),
                Word("vtable", "server", "CEnt"), Word("object", "client", "C_Pawn"),
                Word("vtable", "client", "C_Ent"), Word("object", "server", "CEnt")>>

Module(m, decl, img, data) ==
  [name |-> m, decl |-> decl, system |-> FALSE, small |-> FALSE, image |-> img, data |-> data,
   code |-> <<8, 5, 6, 3, 8, 7>>, text |-> Functions,
   list |-> [head |-> 1, nodes |-> (1 :> [name |-> "I", next |-> 0, usable |-> TRUE])],
   strings |-> <<[text |-> <<"CEnt", "Think">>, category |-> "debug", xrefs |-> <<2>>, class |-> "CEnt"]>>]

Config == <<[name |-> "dwField", module |-> "client", game |-> AnyGame, mode |-> "derived",
             pattern |-> <<8, 7>>, offset |-> 1, from |-> "dwEntityList"],
            [name |-> "dwOther", module |-> "client", game |-> "dota", mode |-> "rip",
             pattern |-> <<8>>, offset |-> 1, from |-> "dwEntityList"],
            [name |-> "dwEntityList", module |-> "client", game |-> "cs2", mode |-> "rip",
             pattern |-> <<8, Wildcard, 6>>, offset |-> 1, from |-> "dwEntityList"],
            [name |-> "dwLast", module |-> "client", game |-> AnyGame, mode |-> "derived",
             pattern |-> <<3, 8>>, offset |-> 0, from |-> "dwField"]>>

\* Of a game that no live session looks at the memory is left out.
NotRunning == [words |-> << >>, readable |-> {}, statics |-> << >>, objects |-> << >>, entities |-> {}, flaky |-> FALSE]

Game(name, img, shared, gap, pawnIn) ==
  [name   |-> name, config |-> Config, live |-> NotRunning,
   loaded |-> <<Module("server", ServerDecl, ServerImage, << >>), Module("client", ClientDecl, img, ClientData)>>,
   infos  |-> Infos(shared, gap),
   enums  |-> [e_Team |-> [name |-> "Team", size |-> 4, values |-> <<"T", "CT">>],
               e_Life |-> [name |-> "Life", size |-> 1, values |-> <<"ALIVE">>]],
   scopes |-> [client |-> IF pawnIn = "hash" THEN Scope("client", <<{"c_Pawn"}, {"c_Ent"}, {}>>, << >>)
                          ELSE Scope("client", <<{"c_Ent"}, {}, {}>>, <<"c_Pawn">>),
               server |-> Scope("server", <<{"s_Ent"}, {"c_Body"}>>, << >>)]]

SomeImage == CHOOSE img \in Images : TRUE
LinkedGames == {Game("cs2", img, "server", "int", "hash") : img \in Images}
OtherGames == {Game(name, SomeImage, shared, gap, p) :
                 name \in {"cs2", UnknownGame}, shared \in {"server", "tier0"},
                 gap \in {"int", "bits"}, p \in {"hash", "free"}}

-----------------------------------------------------------------------------
(* The running game: a C_Pawn at 100 with two Body in its vector at 300, a Body
   at 200, a C_Ent at 340; the entity system at 500 with one chunk at 400, and
   before it a pointer to something else.                                     *)

Ptr(p) == [Zero EXCEPT !.ptr = p]
Vt(class) == [Zero EXCEPT !.vtable = <<"client", build_rtti_hierarchy(SomeImage)[class].vtable>>]
Running ==
  [words |-> (100 :> Vt("C_Pawn")) @@ (108 :> Ptr(200)) @@ (132 :> [Ptr(300) EXCEPT !.count = 2])
               @@ (200 :> Vt("Body")) @@ (204 :> Ptr(100)) @@ (304 :> Ptr(340)) @@ (320 :> Ptr(100))
               @@ (340 :> Vt("C_Ent")) @@ (348 :> Ptr(200))
               @@ (400 :> Ptr(100)) @@ (408 :> Ptr(200)) @@ (424 :> Ptr(340))
               @@ (508 :> Ptr(600)) @@ (516 :> Ptr(400)) @@ (600 :> Ptr(700)),
   readable |-> (100..147) \cup (200..215) \cup (300..331) \cup (340..355) \cup (400..431)
                  \cup (500..540) \cup (600..607) \cup (700..707),
   statics  |-> (<<"client", 8>> :> 500),
   objects  |-> (100 :> "C_Pawn") @@ (200 :> "Body") @@ (340 :> "C_Ent"),
   entities |-> {<<0, 100, "C_Pawn">>, <<1, 200, "Body">>, <<3, 340, "C_Ent">>},
   flaky    |-> FALSE]
RunningGame == [Game("cs2", SomeImage, "server", "int", "hash") EXCEPT !.live = Running]

\* One in which the vector of the C_Pawn is one of pointers.
PointersGame == [RunningGame EXCEPT
                   !.infos.c_Pawn.fields = [@ EXCEPT ![5].kind = "pointers"],
                   !.live.words = (300 :> Ptr(340)) @@ (308 :> Ptr(100)) @@ @]

\* One in which reads fail now and then, and that vector is empty.
FlakyGame == [RunningGame EXCEPT !.live.words[132].count = 0, !.live.flaky = TRUE]
LiveGames == {RunningGame, PointersGame, FlakyGame}
MCRequests == {<<100, "client", "C_Ent">>, <<200, "client", "Body">>, <<100, "client", "C_Pawn">>}

\* A game without any scope of its own, where the dump finds nothing.
EmptyGame == [Game("cs2", SomeImage, "server", "int", "hash") EXCEPT
                !.scopes = [m \in {"client", "server"} |-> Scope("global", <<{}, {}>>, << >>)]]

\* One module more than the worker has room for, known to RTTI only.
CrowdedGame == [Game("cs2", SomeImage, "server", "int", "hash") EXCEPT
                  !.loaded = @ \o <<Module("tier0", ServerDecl, ServerImage, << >>)>>]
MCGames == LinkedGames \cup OtherGames \cup LiveGames \cup {EmptyGame, CrowdedGame}

MCStrides == <<4, 8>>
MCModuleOrder == <<"client", "tier0", "server">>
MCClientName == [CEnt |-> "C_Ent"]
MCNameOrder == <<"Body", "CEnt", "C_Ent", "C_Pawn">>
MCBareName == [Body |-> "Body", CEnt |-> "Ent", C_Ent |-> "Ent", C_Pawn |-> "Pawn"]
MCStubPatterns == {<<7>>, <<3, 99, 9>>}
MCCppSize == [int |-> 4]
MCKindSize == [ptr |-> 8, handle |-> 4, handles |-> 24]
MCArrayOf == ("int[2]" :> [base |-> "int", count |-> 2])
MCOptions == {{}, ToSet(Jobs), {"sdk", "internal_sdk"}, {"live"}}

\* The games that differ in the order of the linker, or in the name, for which
\* the patterns are, go without the generators, and only the running ones go on
\* behind the dump, from one order of the file.
MCInit == /\ Init /\ LiveInit
          /\ game \in LinkedGames \cup {CrowdedGame} \/ game.name = UnknownGame => opts = {}
          /\ ("live" \in opts) = (game \in LiveGames)

NamesInOrder(classes) ==
  \A i, j \in DOMAIN classes :
    i < j => SelectInSeq(NameOrder, LAMBDA n : n = classes[i].name)
               < SelectInSeq(NameOrder, LAMBDA n : n = classes[j].name)
MCExport == game \in LiveGames /\ export' # << >> =>
              \A i \in DOMAIN export'.modules : NamesInOrder(export'.modules[i].classes)

MCSpec == MCInit
          /\ [][\/ Next /\ MCExport /\ UNCHANGED liveVars
                \/ LiveNext /\ UNCHANGED <<dumpVars, exeVars, genVars>>]_<<dumpVars, exeVars, genVars, liveVars>>
=============================================================================
