---------------------------- MODULE MCCellBuffer ----------------------------
EXTENDS CellBuffer

MCTexts == {CRLF}
MCEols == {<<LF>>}
MCStrings == {<<Letter>>}

=============================================================================
