-------------------------------- MODULE MCOcr --------------------------------
EXTENDS Ocr
=============================================================================
