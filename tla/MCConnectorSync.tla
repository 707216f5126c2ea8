--------------------------- MODULE MCConnectorSync ---------------------------
EXTENDS ConnectorSync

CONSTANTS e1, e2, e3

\* A page long enough to be stopped in the middle of, and one after it.
MCPages == << <<e1, e2>>, <<e3>> >>
=============================================================================
