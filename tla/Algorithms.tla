----------------------------- MODULE Algorithms -----------------------------
(* What the pure parts of the code are for, each on every input up to a   *)
(* length: Inputs enumerates them.                                         *)
EXTENDS Inputs, SequencesExt

PA == INSTANCE Path
FM == INSTANCE FnMatch
PV == INSTANCE ParseArgv
ZR == INSTANCE ZipReader
CV == INSTANCE Codecvt
SV == INSTANCE SemVer
ES == INSTANCE Escaping
RE == INSTANCE SplitReplace
PE == INSTANCE PeReader
EL == INSTANCE ElfReader
MO == INSTANCE MachoReader
NU == INSTANCE Numbers
TX == INSTANCE DurationText

CONSTANTS Env, Home, \* the variables, and the home directory
          Texts,     \* the texts that patterns are matched with
          Mappings,  \* what replaces what in a text
          Utf16      \* of each code point in a format, its UTF-16

EE == INSTANCE ExpandEnv
FT == INSTANCE Format

\* Three tokens stand for several characters: two roots and "..".
Characters(t) == CASE t = "device" -> <<"sep", "sep", "?", "sep">>
                   [] t = "share" -> <<"sep", "sep", "b", "sep", "a">>
                   [] t = "up" -> <<".", ".">>
                   [] OTHER -> <<t>>

(* path.cc: joining paths resolves . and .. and never leaves the root.     *)
PathCatCleans ==
  what = "Path" => PA!Cleans(Parts(FlattenSeq([i \in DOMAIN input |-> Characters(input[i])]), ","))
(* fnmatch.cc: wildcards match what the pattern says.                      *)
WildcardsMatch ==
  what = "FnMatch" => FM!SaysThePattern(input, Texts)
(* parseargv.hpp: options mean what was written, in every spelling.        *)
OptionsUnderstood ==
  what = "ParseArgv" => PV!Understands(input)
(* zip.cc, decompress.cc: an archive gives back what was put into it.      *)
ZipReadsBack ==
  what = "Zip" => ZR!ReadsBack(input)
(* simulator.cc: references in a text become the values of the variables.  *)
ReferencesExpand ==
  what = "ExpandEnv" => EE!ExpandsAsMeant(input)
(* semver.hpp: a text that looks like a version is read as one, versions   *)
(* are printed as texts that read back to them, and are ordered.           *)
VersionsReadBack ==
  /\ what = "Version texts" => SV!ReadsWhatLooksLikeOne(input)
  /\ what = "Versions" => \A i \in DOMAIN input : SV!PrintsItself(input[i])
  /\ what = "Version pairs" /\ Len(input) = 2 => SV!Orders(input[1], input[2])
(* codecvt.hpp, escaping.cc: conversions lose nothing before an unpaired   *)
(* surrogate, an escaped text stands for the text, and every escape for    *)
(* what is written.                                                        *)
TextsAreKept ==
  /\ what = "UTF-16" => CV!Keeps16(input)
  /\ what = "UTF-8" => CV!Keeps8(input)
  /\ what = "Escape" => ES!Survives(input)
  /\ what = "Unescape" => ES!MeansItsPieces(input)
(* fmt.cc: a format gives the text that its directives ask for, or a       *)
(* buffer that is too short is noticed.                                    *)
FormatsAsAsked ==
  what = "Format" => FT!Asked(input)
(* str_split.hpp, str_replace.cc, subsitute.cc: pieces and delimiters are  *)
(* the text, and what is made of the pieces has every one of them; of      *)
(* several texts to replace the first and then the longest is, and         *)
(* references are replaced or nothing is added.                            *)
SplitsAndReplaces ==
  /\ what = "Split" => RE!Splits(input)
  /\ what = "Replace" => \A m \in Mappings : RE!Replaces(input, m)
  /\ what = "Substitute" => RE!Substitutes(input, <<<<"b">>, <<>>>>, "0")
(* belawin/pe: an executable file gives back the functions it was linked with *)
(* and those it has for others.                                            *)
ImageReadsBack ==
  /\ what = "PE" => PE!ReadsBack(input)
  /\ what = "ELF" => EL!ReadsBack(input)
  /\ what = "Mach-O" => MO!ReadsBack(input)
(* numbers.cc, duration.cc: a number is printed as its digits and read as  *)
(* it is written, and one that does not fit is refused; a duration reads   *)
(* back from its text, and a text is read as the sum of what it says.      *)
NumbersReadBack ==
  /\ what = "Numbers" /\ Len(input) = 2 => NU!PrintsBack(512 * (64 * input[1] + input[2]) + 63 * input[2] + input[1])
  /\ what = "Number texts" => NU!ReadsAsWritten(input)
  /\ what = "Durations" => \A i \in DOMAIN input : TX!PrintsBack(input[i])
  /\ what = "Duration texts" => TX!ReadsAsWritten(input)
=============================================================================
