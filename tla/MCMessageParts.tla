---------------------------- MODULE MCMessageParts ----------------------------
EXTENDS MessageParts

CONSTANTS h1, h2, a, b, c, d

\* One text without and with its citations resolved, which takes two parts; the
\* other text in one part and in two.
MCRendered ==
  {[hash |-> h1, parts |-> <<a>>], [hash |-> h1, parts |-> <<b, c>>],
   [hash |-> h2, parts |-> <<a, d>>]}

\* An operator's text in one part and another one in two.
MCPlain == {[hash |-> h1, parts |-> <<a>>], [hash |-> h2, parts |-> <<a, d>>]}
=============================================================================
