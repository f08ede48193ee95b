-------------------------------- MODULE MCChain --------------------------------
EXTENDS Chain

\* Every list of up to two layers, and those of three in which order matters most.
MCRegistered ==
  {<<>>} \cup {<<a>> : a \in Layers} \cup {<<a, b>> : a, b \in Layers}
  \cup {<<a, b, c>> : a, b, c \in {"ProxyHeaders", "TrustedHost", "HttpsRedirect"}}
  \cup {<<a, b, c>> : a, b, c \in {"Cors", "Compression", "Timeout", "RequestId"}}
  \cup {<<"Timeout", "Compression", "SecurityHeaders", "BodyLimit">>}
=============================================================================
