SPECIFICATION Spec
PROPERTIES AnswersExact SignedRight
CHECK_DEADLOCK FALSE
CONSTANTS
  P = 163 A = 0 B = 7 GX = 2 GY = 34 N = 139 STEP = 2 WINDOW = 3
  BYTE = 4 LEN = 2 SHORT = 1 ADDRESS = 1 V0 = 3
  Hmac <- MCHmac Sha256 <- MCSha256 Sha3 <- MCSha3 PhraseKey <- MCPhraseKey
  Form <- MCForm GasLimit = 21
  MaxSends = 2 MaxTurns = 12
  Operand <- MCOperand Divisor <- MCDivisor Bit = {0, 5, 8}
  Scalar = {1, 2, 69, 70, 137, 138, 139, 200} Factor = {1, 3, 70, 138}
  Nonces = {0, 1, 17, 77, 138, 155, 255}
