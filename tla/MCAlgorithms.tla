---------------------------- MODULE MCAlgorithms ----------------------------
(* The tokens and the lengths of the inputs. *)
EXTENDS Algorithms, TLC

\* C:\go, C:\GO, C:\, C:, C:go, C:..\go, \go, go, ..\go and the empty text.
Entry(root, sep, names, up, upper) ==
  [root |-> root, sep |-> sep, names |-> names, up |-> up, bare |-> ~sep /\ names = <<>> /\ ~up, upper |-> upper]
Go == <<"go">>
MCSearchPath ==
  {Entry(<<"C:">>, sep, names, FALSE, FALSE) : sep \in BOOLEAN, names \in {<<>>, Go}}
    \cup {Entry(<<"C:">>, TRUE, Go, FALSE, TRUE), Entry(<<"C:">>, FALSE, Go, TRUE, FALSE)}
    \cup {Entry(<<>>, x[1], Go, x[2], FALSE) : x \in {<<TRUE, FALSE>>, <<FALSE, FALSE>>, <<FALSE, TRUE>>}}
    \cup {Entry(<<>>, FALSE, <<>>, FALSE, FALSE)}

Questions == {"CommandLine", "Path", "FnMatch", "ParseArgv", "SearchPath", "Durations", "DateTime", "Zip", "UTF-16", "UTF-8", "ExpandEnv",
              "Version texts", "Versions", "Version pairs", "Escape", "Unescape", "Format", "Replace", "Substitute", "PE", "ELF", "Mach-O",
              "Wide numbers", "Wide shifts", "Numbers", "Number texts", "Split", "Duration texts"}
MCAlphabet == [w \in Questions |->
   CASE w = "CommandLine" -> {"a", "space", "break", "quote", "slash", ","}
     [] w = "Path" -> {"a", "sep", ".", "up", ":", ",", "device", "share"}
     [] w = "FnMatch" -> {"a", "slash", "any", "star", "range", "other", "escaped"}
     [] w = "ParseArgv" -> PV!Items
     [] w = "SearchPath" -> MCSearchPath
     [] w = "Durations" -> DU!Durations
     [] w = "DateTime" -> 0 .. 19
     [] w = "Zip" -> ZR!Entries
     [] w = "ExpandEnv" -> EE!Pieces
     [] w = "Version texts" -> SV!Pieces
     [] w = "Versions" -> SV!Versions
     [] w = "Version pairs" -> {v \in SV!Versions : v.major \notin {32, 64} /\ v.num # 7}
     [] w = "Escape" -> {0, 10, 34, 49, 65, 92, 103, 127, \h80, \hD800}
     [] w = "Unescape" -> ES!Pieces
     [] w = "Format" -> FT!Pieces
     [] w = "Replace" -> {"a", "b"}
     [] w = "Substitute" -> {"a", "0", "reference", "second", "dollar", "none", "odd"}
     [] w = "PE" -> PE!Items
     [] w = "ELF" -> EL!Items
     [] w = "Mach-O" -> MO!Items
     [] w = "Wide numbers" -> {16 * h + l : h, l \in {0, 1, 3, 4, 7, 8, 12, 15}}
     [] w = "Wide shifts" -> 0 .. 255
     [] w = "Numbers" -> 0 .. 31
     [] w = "Number texts" -> {"0", "7", "9", "x", " ", "-", "#"}
     [] w = "Split" -> {"a", "b", ",", " "}
     [] w = "Duration texts" -> {"0", "1", ".", "s", "m", "h", "n"}
     [] w = "UTF-16" -> {\h41, \h7F, \h7FF, \h800, \hD800, \hDBFF, \hDC00, \hDFFF, \hE000, \hFFFF}
     [] w = "UTF-8" -> {\h41, \h80, \hA0, \hB0, \hC3, \hED, \hF0, \hF4, \hF8}]
MCMaxLen == [w \in Questions |->
   CASE w \in {"Versions", "Wide shifts"} -> 1
     [] w \in {"Durations", "DateTime", "Zip", "Version pairs", "Wide numbers", "Numbers"} -> 2
     [] w \in {"ParseArgv", "SearchPath", "Unescape", "Format", "PE", "ELF", "Mach-O"} -> 3
     [] w \in {"FnMatch", "UTF-16", "ExpandEnv", "Escape"} -> 4
     [] w \in {"UTF-8", "Path", "Version texts", "Substitute", "Number texts", "Split", "Duration texts"} -> 5
     [] OTHER -> 6]
MCTexts == UNION {[1 .. n -> {"a", "/", ".", "*"}] : n \in 0 .. 3}
MCEnv == (<<"a">> :> <<"$", "@">>) @@ (<<"@">> :> <<"/", "a">>)
MCOlds == {<<>>, <<"a">>, <<"b">>, <<"a", "b">>, <<"b", "a">>, <<"a", "a">>, <<"b", "a", "b">>}
MCNews == <<<<"a", "b">>, <<"2">>, <<>>>>
MCMappings == UNION {{[i \in 1 .. k |-> <<olds[i], MCNews[i]>>] : olds \in {o \in [1 .. k -> MCOlds] : IsInjective(o)}} : k \in 1 .. 3}
MCUtf16 == (65 :> <<"A">>) @@ (\h1F600 :> <<"high", "low">>)
MCHome == <<"h", "/">>
MCExts == <<".com", ".exe">>
MCPlaces == ({Dir(e) : e \in MCSearchPath} \cup {Cwd}) \X {".com", ".exe"}
MCPlacements == {{f, g} : f, g \in MCPlaces} \cup {{<<Dir(e), "">>} : e \in MCSearchPath}
=============================================================================
