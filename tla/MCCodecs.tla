-------------------------------- MODULE MCCodecs -------------------------------
(***************************************************************************)
(* Small instances of Codecs: bytes that mean something to a codec, and    *)
(* one or two that do not.                                                 *)
(***************************************************************************)
EXTENDS Codecs

MCEncName == <<117>>

\* Words of two or three letters.
MCWords ==
  [type |-> <<99, 116>>, disposition |-> <<99, 100>>, encoding |-> <<99, 101>>,
   charset |-> <<104, 61>>, boundary |-> <<111, 61>>, filename |-> <<102, 61>>,
   name |-> <<110, 61>>, base64 |-> <<54, 52>>, quoted |-> <<113, 112>>]

MCPartName == <<112>>
MCFileKey == <<95, 102>>

\* "<![c["
MCCdata == <<60, 33, 91, 99, 91>>

Single(set) == {<<c>> : c \in set}

MCPieces ==
  [bytes |-> Single({0, 13, 37, 43, 61, 63, 65, 255}),
   runs |-> Single({0, 255}),
   value |-> Single({0, 1, 127, 128, 255}),
   nums |-> Single({0, 3, 4, 15, 16, 63, 64, 255, 256, 1023}),
   block |-> Single({0, 1, 2}),
   string |-> Single({1, 9, 34, 38, 48, 60, 92, 97, 120}),
   xml |-> {<<60>>, <<62>>, <<97>>, <<38>>, CommentOpen, CommentClose, MCCdata, CdataClose},
   ucs |-> Single({65, 127, 128, 2047, 2048, 65535}),
   line |-> Single({9, 32, 34, 44, 92, 97}),
   pair |-> Single({97, 98}),
   decimal |-> Single({32, 45, 46, 48, 49, 120}),
   form |-> Single({0, 32, 38, 43, 61, 97}),
   parts |-> Single({10, 13, 45, 61, 97}),
   \* A time_t of 4 bytes ends within the days -24856 and 24855.
   date |-> Single({-24856, -24855, -719, -366, -1, 0, 1, 58, 59, 364, 365, 789, 790, 11016,
                    11017, 24854, 24855, 24856, 47540})]

MCMaxLen ==
  [bytes |-> 4, runs |-> 8, nums |-> 2, block |-> 7, string |-> 4, xml |-> 4, ucs |-> 3,
   value |-> 5, line |-> 5, pair |-> 8, decimal |-> 5, form |-> 5, parts |-> 4, date |-> 1]
=============================================================================
