----------------------------- MODULE I2cGpioMC -----------------------------
\* A device address of one bit and bytes of two.
EXTENDS I2cGpio
Dev == <<1>>
Bytes == {<<0, 1>>, <<1, 0>>}
=============================================================================
