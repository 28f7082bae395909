---------------------------- MODULE MCCapturePath ----------------------------
(***************************************************************************)
(* CapturePath with frames around the ends of every header, addresses at   *)
(* both sides of every range, and payload bytes at both sides of every     *)
(* test.                                                                   *)
(***************************************************************************)
EXTENDS CapturePath

MCFrameLens ==
  {13, 17, 21, 33, 34, 43, 44, 53, 55, 62, 66, 73, 74, 90}
MCExtLens == {0, 1, 2, 255}

MCIpv4Addresses ==
  {<<52, o, 0, 1>> : o \in {111, 112, 115, 116, 121, 122, 123, 124}}
    \cup {<<74, 125, 250, 9>>, <<74, 125, 247, 128>>, <<74, 125, 247, 129>>,
          <<142, 250, 82, 7>>, <<142, 250, 83, 7>>, <<10, 0, 0, 1>>}

Address6(a, b, c, d) == <<a, b, c, d, 0, 0, 0, 1>>
MCIpv6Addresses ==
  {Address6(\h2603, g, 0, 0) : g \in {\h1010, \h1027, \h1037, \h1047, \h1057}}
    \cup {Address6(\h2603, \h1027, 1, 0)}
    \cup {Address6(\h2620, \h1ec, g, 0) : g \in {6, 7, \h3f, \h40, \h7f, \h80}}
    \cup {Address6(\h2001, \h4860, \h4864, g) : g \in {4, 5, 6, 7}}
    \cup {<<\h2001, \h4860, \h4864, 4, \h8000, 0, 0, 0>>,
          Address6(\h2620, \h1ec0, 0, 0), Address6(\hfd00, 0, 0, 0)}
    \cup {Address6(\h2603, \h1063, g, 0) : g \in {0, \h3ff, \h400}}

MCFirstBytes == {0, 19, 20, 23, 24, 63, 64, 127, 128, 191, 192, 255}
MCSecondBytes == {0, \h0a, 199, \hca, 207, 208, \hfe}
MCLenFields == {0, 12, 20, 36, 56, 57, 59, 60, 99}
=============================================================================
